---------------------------- MODULE Spec2Model ----------------------------
(***************************************************************************)
(* Live message fan-out of rust-demo-chat:                                 *)
(*   src/servers/channels/messages/live.rs  (Router task, Worker tasks)    *)
(*   src/servers/channels/messages/mod.rs   (message_event_stream,         *)
(*                                           render_message)               *)
(*   src/utils.rs                           (MyUuidExt::get_datetime)      *)
(*                                                                         *)
(* The Router task is the loop spawned by create_listener, a Worker task   *)
(* is the loop spawned by spawn_channel_task, a caller is one run of the   *)
(* handler message_event_stream.  Every await at which a task can be       *)
(* suspended is a separate position of that task.  A panic ends the task   *)
(* that raised it and drops everything the task owns as the task unwinds:  *)
(* first the locals of the loop (channel_tasks, user_senders), then the    *)
(* variables the async block captured, in the order the block names them   *)
(* (listener, register_rx; event_rx, register_rx).  The tasks run on       *)
(* several threads, so each drop that another task can tell from the next  *)
(* is a step of its own and the other tasks run in between.                *)
(***************************************************************************)
EXTENDS Integers, Sequences, FiniteSets, TLC

\* ------------------------------------------------------------------ bounds
\* Number of notifications handle_notification returns from in one run.
MaxEvents == 2
\* Number of message_event_stream calls in one run.
MaxRequests == 2
\* The same two numbers for the runs with a backlog of notifications
\* (LoadSpec) and for the runs with a burst of calls (BurstSpec).
MaxLoadEvents == 3
MaxLoadRequests == 2
MaxBurstEvents == 2
MaxBurstRequests == 6

\* -------------------------------------------------------- program constants
UUID_LEN == 36
RegisterCap == 4
UserInboxCap == 1
EventInboxCap == 1

\* ------------------------------------------------------------- input sets
\* Uuid values are written as small integers; UuidText gives their text.
ChannelUuids == {10, 11}
MessageUuids == {1, 2}
UserUuids == {21, 22}
ServerUuids == {31, 32}

\* --------------------------------------------------------------- Uuid text
HexDigits ==
  {"0", "1", "2", "3", "4", "5", "6", "7", "8", "9",
   "a", "b", "c", "d", "e", "f", "A", "B", "C", "D", "E", "F"}

\* Value of one hexadecimal digit; upper and lower case agree.
HexValue(c) ==
  CASE c = "0" -> 0 [] c = "1" -> 1 [] c = "2" -> 2 [] c = "3" -> 3
    [] c = "4" -> 4 [] c = "5" -> 5 [] c = "6" -> 6 [] c = "7" -> 7
    [] c = "8" -> 8 [] c = "9" -> 9
    [] c \in {"a", "A"} -> 10 [] c \in {"b", "B"} -> 11
    [] c \in {"c", "C"} -> 12 [] c \in {"d", "D"} -> 13
    [] c \in {"e", "E"} -> 14 [] c \in {"f", "F"} -> 15

LowerHex(n) ==
  CASE n = 0 -> "0" [] n = 1 -> "1" [] n = 2 -> "2" [] n = 3 -> "3"
    [] n = 4 -> "4" [] n = 5 -> "5" [] n = 6 -> "6" [] n = 7 -> "7"
    [] n = 8 -> "8" [] n = 9 -> "9" [] n = 10 -> "a" [] n = 11 -> "b"
    [] n = 12 -> "c" [] n = 13 -> "d" [] n = 14 -> "e" [] n = 15 -> "f"

UpperHex(n) ==
  CASE n = 10 -> "A" [] n = 11 -> "B" [] n = 12 -> "C"
    [] n = 13 -> "D" [] n = 14 -> "E" [] n = 15 -> "F"
    [] OTHER -> LowerHex(n)

\* Positions of the hyphens in the 8-4-4-4-12 text of a Uuid.
HyphenPositions == {9, 14, 19, 24}

\* Version of the Uuids of the model: message 1 is a v7 Uuid (what
\* Uuid::now_v7 in send_message produces), every other one is a v4 Uuid.
UuidVersion(kind, n) == IF kind = "message" /\ n = 1 THEN 7 ELSE 4

\* The 36 characters of a Uuid of the model, one character per byte: the
\* value sits in the last digit of the first group, the version in the
\* first digit of the third group (character 15).
UuidText(kind, n, upper) ==
  LET hex(x) == IF upper THEN UpperHex(x) ELSE LowerHex(x)
  IN [i \in 1..UUID_LEN |->
        IF i \in HyphenPositions THEN "-"
        ELSE IF i = 8 THEN hex(n)
        ELSE IF i = 15 THEN hex(UuidVersion(kind, n))
        ELSE "0"]

\* A character of a payload and the number of bytes of its UTF-8 encoding.
\* "U+00E9" stands for the one character e-acute, two bytes long.
ByteWidth(c) == IF c = "U+00E9" THEN 2 ELSE 1

RECURSIVE ByteLen(_)
\* str::len: the length of a string in bytes.
ByteLen(s) == IF s = <<>> THEN 0 ELSE ByteWidth(Head(s)) + ByteLen(Tail(s))

RECURSIVE CharsWithin(_, _)
\* The number of leading characters of s that lie wholly in its first n bytes.
CharsWithin(s, n) ==
  IF s = <<>> \/ ByteWidth(Head(s)) > n THEN 0
  ELSE 1 + CharsWithin(Tail(s), n - ByteWidth(Head(s)))

\* str::is_char_boundary(n): byte offset n starts a character or ends s.
IsCharBoundary(s, n) == ByteLen(SubSeq(s, 1, CharsWithin(s, n))) = n

\* &s[..n] for a byte offset n that is a character boundary.
SliceTo(s, n) == SubSeq(s, 1, CharsWithin(s, n))

\* Mutant of SliceFrom: the slice starts one character early.
SliceFromEarly(s, n) == SubSeq(s, CharsWithin(s, n), Len(s))

\* &s[n..] for a byte offset n that is a character boundary.
SliceFrom(s, n) == SubSeq(s, CharsWithin(s, n) + 1, Len(s))

\* Uuid::try_parse on a 36-byte slice: only the hyphenated form has that
\* length. The result is Ok with the values of the digits (0 at a hyphen),
\* or Err.
try_parse(s) ==
  IF /\ Len(s) = UUID_LEN
     /\ ByteLen(s) = UUID_LEN
     /\ \A i \in 1..UUID_LEN :
          IF i \in HyphenPositions THEN s[i] = "-" ELSE s[i] \in HexDigits
  THEN [ok |-> TRUE,
        digits |-> [i \in 1..UUID_LEN |->
                      IF i \in HyphenPositions THEN 0 ELSE HexValue(s[i])]]
  ELSE [ok |-> FALSE]

\* The digit values of a Uuid of the model, as try_parse yields them.
UuidDigits(kind, n) == try_parse(UuidText(kind, n, FALSE)).digits

\* The Uuid of the model that has the given digit values.
UuidOf(kind, digits) ==
  LET all == IF kind = "message" THEN MessageUuids ELSE ChannelUuids
  IN CHOOSE n \in all : UuidDigits(kind, n) = digits

\* ----------------------------------------------------------- notifications
\* s with the character at position i replaced by c.
WithChar(s, i, c) == [s EXCEPT ![i] = c]

\* Two Uuid texts one after the other, as the database triggers send them.
PayloadOf(m, c, upper) ==
  UuidText("message", m, upper) \o UuidText("channel", c, upper)

\* 71 bytes; 72 bytes with a digit that is not hexadecimal; 72 bytes in
\* 71 characters, byte 36 falling inside a two-byte character. Then: no
\* byte; one Uuid; 73 bytes; 72 characters in 73 bytes; 72 bytes in 71
\* characters, the two-byte character lying in the second half.
MalformedPayloads ==
  { SubSeq(PayloadOf(1, 10, FALSE), 1, 2 * UUID_LEN - 1),
    WithChar(PayloadOf(1, 10, FALSE), 3, "g"),
    SubSeq(PayloadOf(1, 10, FALSE), 1, UUID_LEN - 1)
      \o <<"U+00E9">> \o SubSeq(PayloadOf(1, 10, FALSE), UUID_LEN + 2, 2 * UUID_LEN),
    <<>>,
    UuidText("message", 1, FALSE),
    PayloadOf(1, 10, FALSE) \o <<"0">>,
    WithChar(PayloadOf(1, 10, FALSE), 3, "U+00E9"),
    SubSeq(PayloadOf(1, 10, FALSE), 1, UUID_LEN + 1)
      \o <<"U+00E9">> \o SubSeq(PayloadOf(1, 10, FALSE), UUID_LEN + 4, 2 * UUID_LEN) }

\* The notifications the Router is given. On channel 10: the insert of
\* message 1 (also with its payload in upper case) and of message 2, the
\* update and the delete of message 1. On channel 11: the insert of message
\* 1. Then the malformed payloads and a channel that is not listened on,
\* with a well-formed and with the malformed payloads.
Notifications ==
  {[channel |-> "insert_message", payload |-> PayloadOf(m, 10, FALSE)] :
      m \in MessageUuids}
  \cup {[channel |-> ch, payload |-> PayloadOf(1, 10, FALSE)] :
      ch \in {"update_message", "delete_message"}}
  \cup {[channel |-> "insert_message", payload |-> PayloadOf(1, 11, FALSE)]}
  \cup {[channel |-> "insert_message", payload |-> PayloadOf(1, 10, TRUE)]}
  \cup {[channel |-> "insert_message", payload |-> p] : p \in MalformedPayloads}
  \cup {[channel |-> "test", payload |-> PayloadOf(1, 10, FALSE)]}
  \cup {[channel |-> "test", payload |-> p] : p \in MalformedPayloads}

\* handle_notification up to the directory lookup (lines 85-109): the
\* decoded change event, "discard" for an input that is logged and dropped
\* (why names which of the three returns it was), "panic" when a slice index
\* is not a character boundary.
decode_notification(channel, payload) ==
  IF ByteLen(payload) # UUID_LEN * 2 THEN [tag |-> "discard", why |-> "length"]
  ELSE IF channel \notin {"insert_message", "update_message", "delete_message"}
    THEN [tag |-> "discard", why |-> "channel"]
  ELSE IF ~IsCharBoundary(payload, UUID_LEN) THEN [tag |-> "panic"]
  ELSE LET message_id == try_parse(SliceTo(payload, UUID_LEN))
           channel_id == try_parse(SliceFrom(payload, UUID_LEN))
           kind == CASE channel = "insert_message" -> "Insert"
                     [] channel = "update_message" -> "Update"
                     [] channel = "delete_message" -> "Delete"
       IN IF ~message_id.ok \/ ~channel_id.ok
            THEN [tag |-> "discard", why |-> "parse"]
          ELSE [tag |-> "event",
                kind |-> kind,
                message_id |-> UuidOf("message", message_id.digits),
                channel_id |-> UuidOf("channel", channel_id.digits)]

\* What decoding makes of the notifications.
Decoded == {decode_notification(n.channel, n.payload) : n \in Notifications}

\* ------------------------------------------------------------------ state
VARIABLES
  routerPc,      \* Router task: "select", "send_event", "send_reg",
                 \* "push_reg", "unwinding", "panicked"
  routerHand,    \* <<>> or the one message the Router is suspended sending
  routerPanic,   \* "" or the place where the Router task panicked
  register_rx,   \* the Router's registration inbox (mpsc::channel(4))
  channel_tasks, \* keys of the Router's directory, each with its two senders
  held_permits,  \* once register_rx is closed: how many senders can hold a
                 \* permit taken before the close (the slots free at the close)
  stranded,      \* per request: "no", or the closed and drained inbox it was
                 \* pushed into ("register_rx", "user_rx"), which no task reads
  wState,        \* per channel: "absent", "select", "fetch", "unwinding",
                 \* "users_dropped", "events_closed", "panicked"
  wIds,          \* per channel: <<>> or <<ChannelIds of the spawned Worker>>
  wHand,         \* per channel: <<>> or the event whose row is being fetched
  wPanic,        \* per channel: "" or the place where the Worker panicked
  user_rx,       \* per channel: the Worker's registration inbox (channel(1))
  event_rx,      \* per channel: the Worker's event inbox (channel(1))
  user_senders,  \* per channel: user id -> request whose channel tx is kept
  args,          \* per request: <<>> or <<[channel_id, server_id, user_id]>>
  call,          \* per request: position of the message_event_stream call
  oneshot,       \* per request: state of its oneshot response channel
  rx,            \* per request: receiver of the delivery channel made for it
  sent,          \* per request: what was sent on its delivery channel, in order
  nSends,        \* per request: how often a Worker sent on its oneshot
  submitted,     \* per request: whether it entered the Router's inbox
  spawns,        \* per channel: how many Worker tasks were spawned for it
  feed           \* the notifications handled so far, each with its fate

\* The calls of the run, by number.
Requests == DOMAIN call

vars ==
  <<routerPc, routerHand, routerPanic, register_rx, channel_tasks,
    held_permits, stranded, wState, wIds, wHand, wPanic, user_rx, event_rx, user_senders,
    args, call, oneshot, rx, sent, nSends, submitted, spawns, feed>>

routerVars ==
  <<routerPc, routerHand, routerPanic, register_rx, channel_tasks,
    held_permits, stranded>>
workerVars ==
  <<wState, wIds, wHand, wPanic, user_rx, event_rx, user_senders, spawns>>
callerVars == <<args, call, submitted>>
channelVars == <<rx, sent, nSends>>

\* Mutant of SSEChannelRegistrationChannelFailed: one error for both failures.
SameErrorForBoth == "SSERegistationDidNotRecvChannel"

\* The two errors of message_event_stream.
SSEChannelRegistrationChannelFailed == "SSEChannelRegistrationChannelFailed"
SSERegistationDidNotRecvChannel == "SSERegistationDidNotRecvChannel"

\* BTreeMap::new(): the map without an entry.
NoUsers == [u \in {} |-> 0]

\* The state after create_listener returned, before the first of n calls.
InitOf(n) ==
  /\ routerPc = "select"
  /\ routerHand = <<>>
  /\ routerPanic = ""
  /\ register_rx = <<>>
  /\ channel_tasks = {}
  /\ held_permits = 0
  /\ stranded = [r \in 1..n |-> "no"]
  /\ wState = [c \in ChannelUuids |-> "absent"]
  /\ wIds = [c \in ChannelUuids |-> <<>>]
  /\ wHand = [c \in ChannelUuids |-> <<>>]
  /\ wPanic = [c \in ChannelUuids |-> ""]
  /\ user_rx = [c \in ChannelUuids |-> <<>>]
  /\ event_rx = [c \in ChannelUuids |-> <<>>]
  /\ user_senders = [c \in ChannelUuids |-> NoUsers]
  /\ args = [r \in 1..n |-> <<>>]
  /\ call = [r \in 1..n |-> "none"]
  /\ oneshot = [r \in 1..n |-> "none"]
  /\ rx = [r \in 1..n |-> "none"]
  /\ sent = [r \in 1..n |-> <<>>]
  /\ nSends = [r \in 1..n |-> 0]
  /\ submitted = [r \in 1..n |-> FALSE]
  /\ spawns = [c \in ChannelUuids |-> 0]
  /\ feed = <<>>

Init == InitOf(MaxRequests)

\* ---------------------------------------------------------------- helpers
Range(f) == {f[x] : x \in DOMAIN f}

\* The sequence numbers of the events in a Worker's inbox or hand.
SeqsIn(q) == {q[i].seq : i \in DOMAIN q}

\* Dropping the oneshot senders of the requests in S without a send: a
\* receiver that still waits sees the channel closed.
DropSenders(os, S) ==
  [r \in Requests |-> IF r \in S /\ os[r] = "open" THEN "tx_dropped" ELSE os[r]]

\* The fate of the events whose sequence numbers are in S becomes f.
WithFate(fd, S, f) ==
  [i \in DOMAIN fd |-> IF i \in S THEN [fd[i] EXCEPT !.fate = f] ELSE fd[i]]

\* The receiver of a Worker's registration inbox is gone: it is the last
\* thing the ending task drops that a sender can tell.
InboxClosed(c) == wState[c] = "panicked"

\* The receiver of a Worker's event inbox is gone: the unwinding task
\* drops it before the receiver of the registration inbox.
EventInboxClosed(c) == wState[c] \in {"events_closed", "panicked"}

\* A Worker task that panicked at line 142 and still holds the receiver of
\* its registration inbox.
Unwinding(c) == wState[c] \in {"unwinding", "users_dropped", "events_closed"}

\* The loop of the Router task has ended: the task unwinds or is gone.
RouterEnded == routerPc \in {"unwinding", "panicked"}

\* ----------------------------------------------------------------- Router
\* Mutant of event_target: the channel id of the event is not looked at.
event_target_any(tasks, channel_id) ==
  IF tasks = {} THEN {} ELSE {CHOOSE c \in tasks : TRUE}

\* channel_tasks.get(&channel_id) in handle_notification: the Workers the
\* event is handed to (none or one).
event_target(tasks, channel_id) ==
  IF channel_id \in tasks THEN {channel_id} ELSE {}

\* Mutant of has_task: the registration branch always takes its first arm.
has_task_always(tasks, channel_id) == TRUE

\* channel_tasks.get(&ids.channel_id) in the registration branch: whether
\* the request goes to a Worker already in the directory.
has_task(tasks, channel_id) == channel_id \in tasks

\* Mutant of Recv: the message is read and left in the inbox.
RecvPeek(q) == q

\* recv() on an mpsc receiver takes the oldest message out of the inbox.
Recv(q) == Tail(q)

\* Mutant of RouterAtSelect: the Router takes the next message while a
\* send is still suspended.
RouterAtSelect_or_suspended == routerPc \in {"select", "send_event", "send_reg"}

\* The Router is at the tokio::select! of its loop: it takes a notification
\* or a registration only there, the branch bodies being awaited inline.
RouterAtSelect == routerPc = "select"

\* The requests left in the registration inbox of a Worker that is gone.
StrandedAtWorker == {r \in Requests : stranded[r] = "user_rx"}

\* A panic of the Router task: the loop ends and the task unwinds. The
\* request in hand (dropped: the value the failed send gave back) and the
\* local channel_tasks, with every sender in it, are dropped first; the
\* captured listener and register_rx are dropped after them (RouterUnwind),
\* so register_rx still takes requests in between. With the senders of the
\* directory the channels of the Workers that are gone are freed, and what
\* was left in them is dropped. No other task can tell the drop of the
\* request in hand from the drop of the directory that follows it.
RouterPanics(place, dropped) ==
  /\ routerPc' = "unwinding"
  /\ routerHand' = <<>>
  /\ routerPanic' = place
  /\ channel_tasks' = {}
  /\ stranded' = [r \in Requests |-> IF r \in StrandedAtWorker THEN "no"
                                       ELSE stranded[r]]
  /\ oneshot' = DropSenders(oneshot, dropped \cup StrandedAtWorker)
  /\ UNCHANGED <<register_rx, held_permits>>

\* The unwinding Router task drops register_rx: the channel is closed and
\* then drained, the requests in it are dropped with their oneshot senders.
\* A sender that took a permit before the close can still push after the
\* drain (held_permits: the slots free at the close).
RouterUnwind ==
  /\ routerPc = "unwinding"
  /\ routerPc' = "panicked"
  /\ held_permits' = RegisterCap - Len(register_rx)
  /\ oneshot' = DropSenders(oneshot, Range(register_rx))
  /\ register_rx' = <<>>
  /\ UNCHANGED <<routerHand, routerPanic, channel_tasks, stranded, workerVars,
                 callerVars, channelVars, feed>>

\* Mutant of SendEvent: a send to a full inbox replaces what the inbox holds.
SendEvent_lossy(c, msg, fd) ==
  IF EventInboxClosed(c)
    THEN /\ feed' = WithFate(fd, {msg.seq}, "send_failed")
         /\ routerPc' = "select"
         /\ routerHand' = <<>>
         /\ UNCHANGED event_rx
  ELSE /\ feed' = WithFate(fd, {msg.seq}, "queued")
       /\ event_rx' = [event_rx EXCEPT ![c] =
                         IF Len(@) < EventInboxCap THEN Append(@, msg) ELSE <<msg>>]
       /\ routerPc' = "select"
       /\ routerHand' = <<>>

\* event_tx.send((message_id, kind)).await on the inbox of Worker c, for
\* the event numbered seq: an error is logged when the Worker is gone, the
\* Router is suspended while the inbox is full.
SendEvent(c, msg, fd) ==
  IF EventInboxClosed(c)
    THEN /\ feed' = WithFate(fd, {msg.seq}, "send_failed")
         /\ routerPc' = "select"
         /\ routerHand' = <<>>
         /\ UNCHANGED event_rx
  ELSE IF Len(event_rx[c]) < EventInboxCap
    THEN /\ feed' = WithFate(fd, {msg.seq}, "queued")
         /\ event_rx' = [event_rx EXCEPT ![c] = Append(@, msg)]
         /\ routerPc' = "select"
         /\ routerHand' = <<>>
  ELSE /\ feed' = WithFate(fd, {msg.seq}, "routing")
       /\ routerPc' = "send_event"
       /\ routerHand' = <<[msg EXCEPT !.to = c]>>
       /\ UNCHANGED event_rx

\* The calls that hold the open stream of a user of channel c: the stream
\* was returned, its reader is there and the Worker keeps its sender.
OpenStreams(c) ==
  {r \in Requests :
     /\ call[r] = "streaming"
     /\ args[r][1].channel_id = c
     /\ args[r][1].user_id \in DOMAIN user_senders[c]
     /\ user_senders[c][args[r][1].user_id] = r}

\* The record of a notification that handle_notification logged and dropped
\* at one of its first three returns: it has no kind and no ids.
Discarded ==
  [kind |-> "None", message_id |-> 0, channel_id |-> 0, fate |-> "discarded",
   had_task |-> FALSE, streaming |-> {}]

\* listener.recv() gave a notification, one of ds, in a run of at most
\* most of them: handle_notification.
RecvNotif(ds, most) ==
  /\ RouterAtSelect
  /\ \E d \in ds :
       LET seq == Len(feed) + 1
       IN CASE d.tag = "discard" ->
                 /\ Len(feed) < most
                 /\ feed' = Append(feed, Discarded)
                 /\ UNCHANGED <<routerVars, workerVars, callerVars, oneshot,
                                channelVars>>
            [] d.tag = "panic" ->
                 /\ RouterPanics("payload_slice", {})
                 /\ UNCHANGED <<workerVars, callerVars, channelVars, feed>>
            [] d.tag = "event" ->
                 /\ Len(feed) < most
                 /\ LET ev == [kind |-> d.kind, message_id |-> d.message_id,
                               channel_id |-> d.channel_id, fate |-> "route_miss",
                               had_task |-> d.channel_id \in channel_tasks,
                               streaming |-> OpenStreams(d.channel_id)]
                        msg == [seq |-> seq, message_id |-> d.message_id,
                                kind |-> d.kind, to |-> 0]
                        target == event_target(channel_tasks, d.channel_id)
                    IN IF target = {}
                         THEN /\ feed' = Append(feed, ev)
                              /\ UNCHANGED <<routerPc, routerHand, event_rx>>
                       ELSE \E c \in target : SendEvent(c, msg, Append(feed, ev))
                 /\ UNCHANGED <<routerPanic, register_rx, channel_tasks,
                                held_permits, stranded, wState,
                                wIds, wHand, wPanic, user_rx, user_senders,
                                spawns, callerVars, oneshot, channelVars>>

RouterRecvNotif == RecvNotif(Decoded, MaxEvents)

\* listener.recv() gave an error: it is logged.
RouterListenerError ==
  /\ RouterAtSelect
  /\ UNCHANGED vars

\* The suspended event_tx.send completes.
RouterSendEvent ==
  /\ routerPc = "send_event"
  /\ LET msg == routerHand[1]
     IN /\ EventInboxClosed(msg.to) \/ Len(event_rx[msg.to]) < EventInboxCap
        /\ SendEvent(msg.to, [msg EXCEPT !.to = 0], feed)
  /\ UNCHANGED <<routerPanic, register_rx, channel_tasks, held_permits,
                 stranded, wState, wIds, wHand,
                 wPanic, user_rx, user_senders, spawns, callerVars, oneshot,
                 channelVars>>

\* user_tx.send(user_reg_msg).await.expect("Registration to work") on the
\* registration inbox of Worker c; rest is what register_rx still holds.
\* The request was taken off register_rx by the recv before the send; when
\* the send fails the expect panics and register_rx is dropped only as the
\* task unwinds, so the recv (which frees a slot of register_rx) and the
\* drop are two steps: the request is in the Router's hand in between.
\* The send takes a permit of the inbox and then pushes. While the Worker
\* unwinds, its drop of the inbox (a close, then a drain) can fall between
\* the two: the push then comes after the drain and the request is left in
\* a channel that nobody reads, its oneshot sender neither used nor dropped
\* as long as the directory keeps the sender of that channel.
SendRegistration(c, r, rest) ==
  IF InboxClosed(c) /\ routerPc = "send_reg"
    THEN /\ RouterPanics("registration_send", {r})
         /\ UNCHANGED user_rx
  ELSE IF ~InboxClosed(c) /\ Len(user_rx[c]) < UserInboxCap
    THEN \/ /\ user_rx' = [user_rx EXCEPT ![c] = Append(@, r)]
            /\ routerPc' = "select"
            /\ routerHand' = <<>>
            /\ register_rx' = rest
            /\ UNCHANGED <<routerPanic, channel_tasks, held_permits, stranded,
                           oneshot>>
         \/ /\ Unwinding(c)
            /\ routerPc' = "push_reg"
            /\ routerHand' = <<[reg |-> r, to |-> c]>>
            /\ register_rx' = rest
            /\ UNCHANGED <<routerPanic, channel_tasks, held_permits, stranded,
                           oneshot, user_rx>>
  ELSE /\ routerPc' = "send_reg"
       /\ routerHand' = <<[reg |-> r, to |-> c]>>
       /\ register_rx' = rest
       /\ UNCHANGED <<routerPanic, channel_tasks, held_permits, stranded,
                      oneshot, user_rx>>

\* register_rx.recv() gave a request: forward it, spawning the Worker of
\* its channel first when the directory has none.
RouterRecvReg ==
  /\ RouterAtSelect
  /\ register_rx # <<>>
  /\ LET r == Head(register_rx)
         ids == args[r][1]
         c == ids.channel_id
     IN IF has_task(channel_tasks, c)
          THEN /\ SendRegistration(c, r, Recv(register_rx))
               /\ UNCHANGED <<wState, wIds, spawns>>
        ELSE /\ wState' = [wState EXCEPT ![c] = "select"]
             /\ spawns' = [spawns EXCEPT ![c] = @ + 1]
             /\ wIds' = [wIds EXCEPT ![c] =
                           <<[channel_id |-> c, server_id |-> ids.server_id]>>]
             /\ user_rx' = [user_rx EXCEPT ![c] = <<r>>]
             /\ channel_tasks' = channel_tasks \cup {c}
             /\ register_rx' = Recv(register_rx)
             /\ UNCHANGED <<routerPc, routerHand, routerPanic, held_permits,
                            stranded, oneshot>>
  /\ UNCHANGED <<wHand, wPanic, event_rx, user_senders, callerVars, channelVars, feed>>

\* The suspended user_tx.send completes.
RouterSendReg ==
  /\ routerPc = "send_reg"
  /\ LET h == routerHand[1]
     IN /\ InboxClosed(h.to) \/ Len(user_rx[h.to]) < UserInboxCap
        /\ SendRegistration(h.to, h.reg, register_rx)
  /\ UNCHANGED <<wState, wIds, wHand, wPanic, event_rx, user_senders, spawns,
                 callerVars, channelVars, feed>>

\* The user_tx.send that took its permit while the Worker was unwinding
\* pushes: into the inbox when the Worker has not dropped it yet, else into
\* the closed and drained channel, where the request stays; the send
\* returns Ok in both cases.
RouterPushReg ==
  /\ routerPc = "push_reg"
  /\ LET h == routerHand[1]
     IN IF InboxClosed(h.to)
          THEN /\ stranded' = [stranded EXCEPT ![h.reg] = "user_rx"]
               /\ UNCHANGED user_rx
        ELSE /\ user_rx' = [user_rx EXCEPT ![h.to] = Append(@, h.reg)]
             /\ UNCHANGED stranded
  /\ routerPc' = "select"
  /\ routerHand' = <<>>
  /\ UNCHANGED <<routerPanic, register_rx, channel_tasks, held_permits, oneshot,
                 wState, wIds, wHand, wPanic, event_rx, user_senders, spawns,
                 callerVars, channelVars, feed>>

\* ----------------------------------------------------------------- Worker
\* Times are whole numbers. A version-7 message id carries the time it was
\* made at; the clock reads that Utc::now() gives while a message is
\* rendered come after it.
UuidTimestamp(message_id) == 1
Clock == {2, 3}

\* The updated column of a row: the time of its creation while the message
\* was never edited, a later time once it was.
UpdatedTimes == {1, 2}

\* The messages table joined with chat_users, as fetch_one reads it at the
\* time of the fetch: message 1 was written by user 21, message 2 by user
\* 22; content and updated are what the last edit made them.
MessageRow(message_id, updated) ==
  [id |-> message_id,
   content |-> <<"content", message_id, updated>>,
   updated |-> updated,
   author |-> IF message_id = 1 THEN 21 ELSE 22,
   author_name |-> <<"name", IF message_id = 1 THEN 21 ELSE 22>>]

\* What fetch_one can return for the message of a change event: an error,
\* or its row as it is by then. The UPDATE that an Update event tells of
\* has set updated to the time of the edit; after an Insert the message
\* may have been edited or not.
FetchResults(message_id, kind) ==
  {[ok |-> FALSE]}
    \cup {[ok |-> TRUE, row |-> MessageRow(message_id, t)] :
            t \in {u \in UpdatedTimes :
                     kind = "Update" => u > UuidTimestamp(message_id)}}

\* The clock reads of the calls of render_message that one event makes, one
\* call for each user in the order of the map: each call reads the clock
\* anew, a later call reads no earlier time than the call before it.
ClockReads(users) ==
  {now \in [DOMAIN users -> Clock] :
     \A u, v \in DOMAIN users : u < v => now[u] <= now[v]}

\* #{"msg-"(id)}: the id attribute of the element of a message.
element_id(id) == <<"msg-", id>>

\* Mutant of get_datetime: every Uuid yields a time.
get_datetime_any(message_id) == <<UuidTimestamp(message_id)>>

\* MyUuidExt::get_datetime of a message id: Some exactly when the Uuid has
\* a timestamp, which Uuid::get_timestamp reads from versions 1, 6 and 7;
\* <<>> is None.
get_datetime(message_id) ==
  IF UuidVersion("message", message_id) \in {1, 6, 7}
    THEN <<UuidTimestamp(message_id)>>
  ELSE <<>>

\* created_at.signed_duration_since(now).to_relative(): the text names the
\* direction and the length of the time between the two.
to_relative(created_at, now) ==
  IF created_at < now THEN <<now - created_at, "ago">>
  ELSE IF created_at > now THEN <<"in", created_at - now>>
  ELSE <<"now">>

\* Mutant of render_message: the links name the reader in place of the server.
render_message_user_links(msg, user_id, channel_id, server_id, swap_oob, now) ==
  LET created_at == get_datetime(msg.id)
  IN IF created_at = <<>> THEN [ok |-> FALSE]
     ELSE [ok |-> TRUE,
           markup |-> [el |-> "li", id |-> element_id(msg.id),
                       swap_oob |-> swap_oob,
                       edited |-> (msg.updated > created_at[1]),
                       author_name |-> msg.author_name,
                       datetime |-> created_at[1],
                       relative |-> to_relative(created_at[1], now),
                       content |-> msg.content,
                       is_author |-> (msg.author = user_id),
                       channel_id |-> channel_id, server_id |-> user_id]]

\* Mutant of render_message: the markup is that of the author's own view.
render_message_as_author(msg, user_id, channel_id, server_id, swap_oob, now) ==
  LET created_at == get_datetime(msg.id)
  IN IF created_at = <<>> THEN [ok |-> FALSE]
     ELSE [ok |-> TRUE,
           markup |-> [el |-> "li", id |-> element_id(msg.id),
                       swap_oob |-> swap_oob,
                       edited |-> (msg.updated > created_at[1]),
                       author_name |-> msg.author_name,
                       datetime |-> created_at[1],
                       relative |-> to_relative(created_at[1], now),
                       content |-> msg.content,
                       is_author |-> TRUE,
                       channel_id |-> channel_id, server_id |-> server_id]]

\* render_message: the markup of one message for one reader, or the error
\* NoTimestampFromUuid. now is what Utc::now() gives in this call: the
\* time shown is relative to it. The "Edited" span is there when the row
\* was updated after the message was made; the Edit button is there for
\* the author alone, the Delete button for every reader, both with a link
\* under the server and the channel.
render_message(msg, user_id, channel_id, server_id, swap_oob, now) ==
  LET created_at == get_datetime(msg.id)
  IN IF created_at = <<>> THEN [ok |-> FALSE]
     ELSE [ok |-> TRUE,
           markup |-> [el |-> "li", id |-> element_id(msg.id),
                       swap_oob |-> swap_oob,
                       edited |-> (msg.updated > created_at[1]),
                       author_name |-> msg.author_name,
                       datetime |-> created_at[1],
                       relative |-> to_relative(created_at[1], now),
                       content |-> msg.content,
                       is_author |-> (msg.author = user_id),
                       channel_id |-> channel_id, server_id |-> server_id]]

\* html!(#{"msg-"(message_id)} hx-swap-oob="delete" {}) of the Delete branch.
delete_markup(message_id) ==
  [el |-> "div", id |-> element_id(message_id), swap_oob |-> "delete"]

\* Event::default().event("message").data(markup); seq is the number of the
\* change event in the feed it was made for.
SseEvent(seq, markup) == [seq |-> seq, event |-> "message", data |-> markup]

\* Mutant of UnboundedSend: the event is put in front of the queue.
UnboundedSendFront(queue, ev) == <<ev>> \o queue

\* tx.send on an unbounded channel: the event joins the end of the queue.
UnboundedSend(queue, ev) == Append(queue, ev)

\* tx.send(..).is_err(): the receiver of the channel is gone.
SendFails(r) == rx[r] = "dropped"

\* Mutant of send_ready: the channel holds one event, as a channel(1) does.
send_ready_bounded(queue) == Len(queue) < UserInboxCap

\* Whether tx.send can complete on a channel made by unbounded_channel():
\* it is not async and never waits, whatever the channel holds unread.
send_ready(queue) == TRUE

\* Mutant of rendered_for: the loop ends after the first user.
rendered_for_first(ids, msg, row, users, now) ==
  LET out(u) == render_message(row, u, ids.channel_id, ids.server_id,
                               msg.kind = "Update", now[u])
  IN [u \in (IF DOMAIN users = {} THEN {}
             ELSE {v \in {CHOOSE w \in DOMAIN users : TRUE} : out(v).ok})
        |-> SseEvent(msg.seq, out(u).markup)]

\* Mutant of rendered_for: an Update is rendered as an Insert is.
rendered_for_no_oob(ids, msg, row, users, now) ==
  LET out(u) == render_message(row, u, ids.channel_id, ids.server_id, FALSE,
                               now[u])
  IN [u \in {v \in DOMAIN users : out(v).ok} |-> SseEvent(msg.seq, out(u).markup)]

\* The first match arm of handle_message_event after the fetch: the users
\* whose render succeeded, each with the event sent to it. The message is
\* rendered once for each user, one call after the other; now[u] is the
\* clock read of the call made for user u.
rendered_for(ids, msg, row, users, now) ==
  LET out(u) == render_message(row, u, ids.channel_id, ids.server_id,
                               msg.kind = "Update", now[u])
  IN [u \in {v \in DOMAIN users : out(v).ok} |-> SseEvent(msg.seq, out(u).markup)]

\* Mutant of deleted_for: the loop ends after the first user.
deleted_for_first(msg, users) ==
  [u \in (IF DOMAIN users = {} THEN {} ELSE {CHOOSE v \in DOMAIN users : TRUE})
     |-> SseEvent(msg.seq, delete_markup(msg.message_id))]

\* The second match arm: every user is sent the same deletion.
deleted_for(msg, users) ==
  [u \in DOMAIN users |-> SseEvent(msg.seq, delete_markup(msg.message_id))]

\* Mutant of remove_stale: stale_sender is not looked at.
remove_none(users, stale) == users

\* users.remove(id) for every id in stale_sender.
remove_stale(users, stale) == [u \in DOMAIN users \ stale |-> users[u]]

\* Mutant of Deliver: the loop over the users, which goes in the order of
\* their ids, ends at the first send that fails.
Deliver_until_dead(c, msg, out) ==
  LET users == user_senders[c]
      stale == {u \in DOMAIN out : SendFails(users[u])}
      reached == {u \in DOMAIN out \ stale : \A v \in stale : u < v}
  IN /\ sent' = [r \in Requests |->
                   IF \E u \in reached : users[u] = r
                     THEN UnboundedSend(sent[r],
                            out[CHOOSE u \in reached : users[u] = r])
                   ELSE sent[r]]
     /\ user_senders' = [user_senders EXCEPT ![c] = remove_stale(users, stale)]
     /\ feed' = WithFate(feed, {msg.seq}, "processed")

\* Mutant of Deliver: the event is sent on every delivery channel that has
\* its receiver, whichever Worker holds the sender.
Deliver_broadcast(c, msg, out) ==
  /\ sent' = [r \in Requests |->
                IF rx[r] = "open" THEN Append(sent[r], SseEvent(msg.seq, <<>>))
                ELSE sent[r]]
  /\ UNCHANGED user_senders
  /\ feed' = WithFate(feed, {msg.seq}, "processed")

\* The sends of handle_message_event and its removal of the stale senders:
\* out maps the users an event is sent to to that event.
Deliver(c, msg, out) ==
  LET users == user_senders[c]
      stale == {u \in DOMAIN out : SendFails(users[u])}
  IN /\ \A u \in DOMAIN out \ stale : send_ready(sent[users[u]])
     /\ sent' = [r \in Requests |->
                   IF \E u \in DOMAIN out \ stale : users[u] = r
                     THEN UnboundedSend(sent[r],
                            out[CHOOSE u \in DOMAIN out \ stale : users[u] = r])
                   ELSE sent[r]]
     /\ user_senders' = [user_senders EXCEPT ![c] = remove_stale(users, stale)]
     /\ feed' = WithFate(feed, {msg.seq}, "processed")

\* Mutant of select_polls: the registration branch is polled first, the
\* event branch is taken only when no registration is ready.
select_polls_registration_first(branch, other_ready) ==
  branch = "register" \/ ~other_ready

\* tokio::select! of the Worker, written without biased: the branches are
\* polled in random order, so a ready branch can be the one taken whether
\* or not the other branch is ready.
select_polls(branch, other_ready) == TRUE

\* event_rx.recv() gave an event: handle_message_event up to the fetch (a
\* Delete has none and is handled at once).
WorkerRecvEvent(c) ==
  /\ wState[c] = "select"
  /\ event_rx[c] # <<>>
  /\ select_polls("event", user_rx[c] # <<>>)
  /\ LET msg == Head(event_rx[c])
     IN /\ event_rx' = [event_rx EXCEPT ![c] = Recv(@)]
        /\ IF msg.kind = "Delete"
             THEN /\ Deliver(c, msg, deleted_for(msg, user_senders[c]))
                  /\ UNCHANGED <<wState, wHand>>
           ELSE /\ wState' = [wState EXCEPT ![c] = "fetch"]
                /\ wHand' = [wHand EXCEPT ![c] = <<msg>>]
                /\ feed' = WithFate(feed, {msg.seq}, "fetching")
                /\ UNCHANGED <<sent, user_senders>>
  /\ UNCHANGED <<routerVars, wIds, wPanic, user_rx, spawns, callerVars, oneshot,
                 rx, nSends>>

\* Mutant of on_event_error: the error ends the task.
on_event_error_exit == "panicked"

\* if let Err(err) = handle_message_event(..).await { error!(..) }: the
\* error is logged and the loop goes back to its select.
on_event_error == "select"

\* fetch_one returned: on an error the event is given up, else the row is
\* rendered for each user, at the time of that call, and sent to the users.
WorkerFetch(c) ==
  /\ wState[c] = "fetch"
  /\ LET msg == wHand[c][1]
     IN \E fetched \in FetchResults(msg.message_id, msg.kind) :
          IF ~fetched.ok
            THEN /\ feed' = WithFate(feed, {msg.seq}, "fetch_failed")
                 /\ UNCHANGED <<sent, user_senders>>
                 /\ wState' = [wState EXCEPT ![c] = on_event_error]
          ELSE \E now \in ClockReads(user_senders[c]) :
                 /\ Deliver(c, msg, rendered_for(wIds[c][1], msg, fetched.row,
                                                 user_senders[c], now))
                 /\ wState' = [wState EXCEPT ![c] = "select"]
  /\ wHand' = [wHand EXCEPT ![c] = <<>>]
  /\ UNCHANGED <<routerVars, wIds, wPanic, user_rx, event_rx, spawns, callerVars,
                 oneshot, rx, nSends>>

\* sender.send(rx) with the caller still waiting: the oneshot holds the
\* receiver of the new delivery channel.
oneshot_send(os, r) == [os EXCEPT ![r] = "value"]

\* Mutant of insert: an entry the map already has for the key is kept.
insert_if_absent(users, user_id, tx) == users @@ (user_id :> tx)

\* user_senders.insert(user_id, tx) on the BTreeMap: the new sender takes
\* the place of the one the map had for the key, which is dropped.
insert(users, user_id, tx) == (user_id :> tx) @@ users

\* register_rx.recv() gave a request: a new delivery channel is made, its
\* sender kept under the user and its receiver sent back;
\* expect("Sending sse channel to work") panics when the caller is gone.
\* The recv has freed the slot of the inbox; user_senders and the inboxes
\* are dropped only as the task unwinds (WorkerDropUsers, WorkerDropEvents,
\* WorkerUnwind), and the Router runs in between.
WorkerRecvReg(c) ==
  /\ wState[c] = "select"
  /\ user_rx[c] # <<>>
  /\ select_polls("register", event_rx[c] # <<>>)
  /\ LET r == Head(user_rx[c])
         user_id == args[r][1].user_id
     IN /\ nSends' = [nSends EXCEPT ![r] = @ + 1]
        /\ UNCHANGED sent
        /\ IF oneshot[r] = "open"
             THEN /\ oneshot' = oneshot_send(oneshot, r)
                  /\ rx' = [rx EXCEPT ![r] = "open"]
                  /\ user_senders' = [user_senders EXCEPT ![c] =
                                        insert(@, user_id, r)]
                  /\ user_rx' = [user_rx EXCEPT ![c] = Recv(@)]
                  /\ UNCHANGED <<wState, wPanic, event_rx, feed>>
           ELSE /\ rx' = [rx EXCEPT ![r] = "dropped"]
                /\ user_senders' = [user_senders EXCEPT ![c] =
                                      insert(@, user_id, r)]
                /\ user_rx' = [user_rx EXCEPT ![c] = Recv(@)]
                /\ wState' = [wState EXCEPT ![c] = "unwinding"]
                /\ UNCHANGED <<oneshot, wPanic, event_rx, feed>>
  /\ UNCHANGED <<routerVars, wIds, wHand, spawns, callerVars>>

\* The panic of expect("Sending sse channel to work") unwinds the task.
\* The local user_senders is dropped first: every stream of the channel
\* ends, while both inboxes still take what the Router sends.
WorkerDropUsers(c) ==
  /\ wState[c] = "unwinding"
  /\ wState' = [wState EXCEPT ![c] = "users_dropped"]
  /\ user_senders' = [user_senders EXCEPT ![c] = NoUsers]
  /\ UNCHANGED <<routerVars, wIds, wHand, wPanic, user_rx, event_rx, spawns,
                 callerVars, oneshot, channelVars, feed>>

\* Then the captured event_rx is dropped: the channel is closed and the
\* events in it are dropped unread, without a log line. An event that the
\* Router pushes after the drain, with a permit taken before the close, is
\* left unread in the channel: it is lost like the events dropped with the
\* inbox, the Router's send having returned Ok in both cases.
WorkerDropEvents(c) ==
  /\ wState[c] = "users_dropped"
  /\ wState' = [wState EXCEPT ![c] = "events_closed"]
  /\ feed' = WithFate(feed, SeqsIn(event_rx[c]), "lost")
  /\ event_rx' = [event_rx EXCEPT ![c] = <<>>]
  /\ UNCHANGED <<routerVars, wIds, wHand, wPanic, user_rx, user_senders, spawns,
                 callerVars, oneshot, channelVars>>

\* Last the captured register_rx of the Worker is dropped: the channel is
\* closed and the requests in it are dropped with their oneshot senders.
\* The task is gone.
WorkerUnwind(c) ==
  /\ wState[c] = "events_closed"
  /\ wState' = [wState EXCEPT ![c] = "panicked"]
  /\ wPanic' = [wPanic EXCEPT ![c] = "oneshot_send"]
  /\ oneshot' = DropSenders(oneshot, Range(user_rx[c]))
  /\ user_rx' = [user_rx EXCEPT ![c] = <<>>]
  /\ UNCHANGED <<routerVars, wIds, wHand, event_rx, user_senders, spawns,
                 callerVars, channelVars, feed>>

\* The Router has dropped the directory and with it the senders of both
\* inboxes, which are empty: both recv() give None, every branch of select!
\* is disabled and, there being no else branch, the task panics. Its
\* user_senders is dropped; the drop of the inboxes, which have no sender
\* and hold nothing, shows to nobody.
WorkerAllClosed(c) ==
  /\ wState[c] = "select"
  /\ RouterEnded
  /\ user_rx[c] = <<>>
  /\ event_rx[c] = <<>>
  /\ wState' = [wState EXCEPT ![c] = "panicked"]
  /\ wPanic' = [wPanic EXCEPT ![c] = "select_disabled"]
  /\ user_senders' = [user_senders EXCEPT ![c] = NoUsers]
  /\ UNCHANGED <<routerVars, wIds, wHand, user_rx, event_rx, spawns, callerVars,
                 oneshot, channelVars, feed>>

\* ---------------------------------------------------------------- callers
\* The calls of message_event_stream: a channel, the server it is asked
\* under and the user. Channel 10 is asked for by both users, under
\* different servers.
SubscribeInputs ==
  {[channel_id |-> 10, server_id |-> 31, user_id |-> 21],
   [channel_id |-> 10, server_id |-> 32, user_id |-> 22],
   [channel_id |-> 11, server_id |-> 31, user_id |-> 22]}

\* message_event_stream up to the end of register.send(..).await: the
\* oneshot channel is made and the request sent, which completes with an
\* error when the Router's receiver is gone, else once the inbox has room.
\* A send that took its permit before register_rx was closed pushes after
\* the drain and returns Ok: the request stays in the closed channel, which
\* lives as long as the sender registry.register in AppState, and its
\* oneshot sender is never dropped.
\* Calls are numbered in the order their sends complete; inputs is what
\* they can ask for.
SubscribeOf(r, inputs) ==
  /\ call[r] = "none"
  /\ \A q \in Requests : q < r => call[q] # "none"
  /\ \E a \in inputs : args' = [args EXCEPT ![r] = <<a>>]
  /\ IF routerPc = "panicked"
       THEN \/ /\ call' = [call EXCEPT ![r] = SSEChannelRegistrationChannelFailed]
               /\ oneshot' = [oneshot EXCEPT ![r] = "tx_dropped"]
               /\ UNCHANGED <<register_rx, submitted, held_permits, stranded>>
            \/ /\ held_permits > 0
               /\ held_permits' = held_permits - 1
               /\ stranded' = [stranded EXCEPT ![r] = "register_rx"]
               /\ submitted' = [submitted EXCEPT ![r] = TRUE]
               /\ call' = [call EXCEPT ![r] = "waiting"]
               /\ oneshot' = [oneshot EXCEPT ![r] = "open"]
               /\ UNCHANGED register_rx
     ELSE /\ Len(register_rx) < RegisterCap
          /\ register_rx' = Append(register_rx, r)
          /\ submitted' = [submitted EXCEPT ![r] = TRUE]
          /\ call' = [call EXCEPT ![r] = "waiting"]
          /\ oneshot' = [oneshot EXCEPT ![r] = "open"]
          /\ UNCHANGED <<held_permits, stranded>>
  /\ UNCHANGED <<routerPc, routerHand, routerPanic, channel_tasks, workerVars,
                 channelVars, feed>>

Subscribe(r) == SubscribeOf(r, SubscribeInputs)

\* rx.await completes: with the delivery channel, which becomes the stream
\* of the response, or with an error when the sender was dropped.
CallerRecv(r) ==
  /\ call[r] = "waiting"
  /\ oneshot[r] \in {"value", "tx_dropped"}
  /\ IF oneshot[r] = "value"
       THEN /\ call' = [call EXCEPT ![r] = "streaming"]
            /\ oneshot' = [oneshot EXCEPT ![r] = "taken"]
     ELSE /\ call' = [call EXCEPT ![r] = SSERegistationDidNotRecvChannel]
          /\ UNCHANGED oneshot
  /\ UNCHANGED <<routerVars, workerVars, args, submitted, channelVars, feed>>

\* The client goes away while the call waits for the response; the handler
\* is dropped and with it the oneshot receiver and what it holds.
CallerAbandon(r) ==
  /\ call[r] = "waiting"
  /\ call' = [call EXCEPT ![r] = "abandoned"]
  /\ oneshot' = [oneshot EXCEPT ![r] = "rx_dropped"]
  /\ rx' = [rx EXCEPT ![r] = IF oneshot[r] = "value" THEN "dropped" ELSE @]
  /\ UNCHANGED <<routerVars, workerVars, args, submitted, sent, nSends, feed>>

\* The client of an open stream goes away: the receiver is dropped.
Disconnect(r) ==
  /\ call[r] = "streaming"
  /\ call' = [call EXCEPT ![r] = "closed"]
  /\ rx' = [rx EXCEPT ![r] = "dropped"]
  /\ UNCHANGED <<routerVars, workerVars, args, submitted, oneshot, sent, nSends,
                 feed>>

\* UnboundedReceiverStream over the delivery channel of call r: the stream
\* of the response ends when the Worker no longer holds the sender, which
\* it drops when it overwrites or removes the entry of user_senders and when
\* its task ends.
StreamEnded(r) ==
  /\ call[r] = "streaming"
  /\ r \notin OpenStreams(args[r][1].channel_id)

\* ---------------------------------------------------------- specification
RouterStep ==
  \/ RouterRecvNotif
  \/ RouterListenerError
  \/ RouterSendEvent
  \/ RouterRecvReg
  \/ RouterSendReg
  \/ RouterPushReg
  \/ RouterUnwind

WorkerStep(c) ==
  \/ WorkerRecvEvent(c)
  \/ WorkerFetch(c)
  \/ WorkerRecvReg(c)
  \/ WorkerDropUsers(c)
  \/ WorkerDropEvents(c)
  \/ WorkerUnwind(c)
  \/ WorkerAllClosed(c)

Next ==
  \/ RouterStep
  \/ \E c \in ChannelUuids : WorkerStep(c)
  \/ \E r \in 1..MaxRequests :
       \/ Subscribe(r)
       \/ CallerRecv(r)
       \/ CallerAbandon(r)
       \/ Disconnect(r)

Spec == Init /\ [][Next]_vars

\* Every task that can take a step of its own is scheduled: the runtime
\* polls a woken task, and select! picks among its ready branches at random.
\* Nothing is assumed of the feed, the clients and new calls.
Fairness ==
  /\ WF_vars(RouterRecvReg)
  /\ WF_vars(RouterSendReg)
  /\ WF_vars(RouterPushReg)
  /\ WF_vars(RouterSendEvent)
  /\ WF_vars(RouterUnwind)
  /\ \A c \in ChannelUuids :
       /\ WF_vars(WorkerRecvEvent(c))
       /\ WF_vars(WorkerFetch(c))
       /\ WF_vars(WorkerRecvReg(c))
       /\ WF_vars(WorkerDropUsers(c))
       /\ WF_vars(WorkerDropEvents(c))
       /\ WF_vars(WorkerUnwind(c))
       /\ WF_vars(WorkerAllClosed(c))
  /\ \A r \in 1..MaxRequests : WF_vars(CallerRecv(r))

FairSpec == Spec /\ Fairness

\* Fair runs with a narrower feed: of the change events only the insert and
\* the delete of message 1, on either channel they are sent for, so an event
\* is handled with a fetch or without one; the malformed notifications, the
\* calls, the clients that go away and every panic are those of Spec.
ForwardDecoded ==
  {d \in Decoded :
     d.tag = "event" => (d.kind \in {"Insert", "Delete"} /\ d.message_id = 1)}

ForwardRecvNotif == RecvNotif(ForwardDecoded, MaxEvents)

ForwardNext ==
  \/ ForwardRecvNotif
  \/ RouterListenerError
  \/ RouterSendEvent
  \/ RouterRecvReg
  \/ RouterSendReg
  \/ RouterPushReg
  \/ RouterUnwind
  \/ \E c \in ChannelUuids : WorkerStep(c)
  \/ \E r \in 1..MaxRequests :
       \/ Subscribe(r)
       \/ CallerRecv(r)
       \/ CallerAbandon(r)
       \/ Disconnect(r)

ForwardSpec == Init /\ [][ForwardNext]_vars /\ Fairness

\* ----------------------------------------------------- runs without faults
\* Runs that are longer than those of Spec and have no fault: every
\* notification is the well-formed insert of message 1 on one of the two
\* channels, and no client goes away. The tasks take the same steps as in
\* Spec; with no panic, the steps of an unwinding task do not occur.
LoadDecoded ==
  {decode_notification("insert_message", PayloadOf(1, c, FALSE)) : c \in ChannelUuids}

\* A backlog of notifications: three of them, for two calls on different
\* channels.
LoadSubscribeInputs ==
  {[channel_id |-> 10, server_id |-> 31, user_id |-> 21],
   [channel_id |-> 11, server_id |-> 31, user_id |-> 22]}

LoadInit == InitOf(MaxLoadRequests)

LoadRecvNotif == RecvNotif(LoadDecoded, MaxLoadEvents)

LoadSubscribe(r) == SubscribeOf(r, LoadSubscribeInputs)

LoadNext ==
  \/ LoadRecvNotif
  \/ RouterSendEvent
  \/ RouterRecvReg
  \/ RouterSendReg
  \/ \E c \in ChannelUuids :
       \/ WorkerRecvEvent(c)
       \/ WorkerFetch(c)
       \/ WorkerRecvReg(c)
  \/ \E r \in 1..MaxLoadRequests :
       \/ LoadSubscribe(r)
       \/ CallerRecv(r)

LoadSpec == LoadInit /\ [][LoadNext]_vars

\* A burst of calls: six of them, more than register_rx holds, all by one
\* user for one channel, with two notifications.
BurstSubscribeInputs == {[channel_id |-> 10, server_id |-> 31, user_id |-> 21]}

BurstInit == InitOf(MaxBurstRequests)

BurstRecvNotif == RecvNotif(LoadDecoded, MaxBurstEvents)

BurstSubscribe(r) == SubscribeOf(r, BurstSubscribeInputs)

BurstNext ==
  \/ BurstRecvNotif
  \/ RouterSendEvent
  \/ RouterRecvReg
  \/ RouterSendReg
  \/ \E c \in ChannelUuids :
       \/ WorkerRecvEvent(c)
       \/ WorkerFetch(c)
       \/ WorkerRecvReg(c)
  \/ \E r \in 1..MaxBurstRequests :
       \/ BurstSubscribe(r)
       \/ CallerRecv(r)

BurstSpec == BurstInit /\ [][BurstNext]_vars

\* ------------------------------------------------------------------ claims
\* The author of a message, whatever was edited of it.
AuthorOf(message_id) == MessageRow(message_id, UuidTimestamp(message_id)).author

\* How often the event numbered e was sent on the delivery channel of r.
TimesSent(r, e) == Cardinality({i \in DOMAIN sent[r] : sent[r][i].seq = e})

\* The same count after the step.
TimesSentAfter(r, e) == Cardinality({i \in DOMAIN sent'[r] : sent'[r][i].seq = e})

Running(c) == wState[c] \in {"select", "fetch"}

\* C1: on every delivery channel the events of its channel appear in the
\* order of the feed: an event never comes after one the feed produced
\* later.
C1_PerTopicOrder ==
  \A r \in Requests : \A i, j \in DOMAIN sent[r] :
    i < j => sent[r][i].seq <= sent[r][j].seq

\* C1 witness: a delivery channel on which two different events were sent.
C1_Witness ==
  \E r \in Requests : \E i, j \in DOMAIN sent[r] : sent[r][i].seq # sent[r][j].seq

\* C2: an event decoded with channel id T is only ever in the inbox or the
\* hand of the Worker filed under T, and is only sent on delivery channels
\* made for registrations on T.
C2_TopicIsolation ==
  /\ \A c \in ChannelUuids :
       \A e \in SeqsIn(event_rx[c]) \cup SeqsIn(wHand[c]) : feed[e].channel_id = c
  /\ routerPc = "send_event" => feed[routerHand[1].seq].channel_id = routerHand[1].to
  /\ \A r \in Requests : \A i \in DOMAIN sent[r] :
       feed[sent[r][i].seq].channel_id = args[r][1].channel_id

\* C2 witness: two open streams on different channels, an event was sent on
\* one and nothing on the other.
C2_Witness ==
  \E r1, r2 \in Requests :
    /\ call[r1] = "streaming" /\ call[r2] = "streaming"
    /\ args[r1][1].channel_id # args[r2][1].channel_id
    /\ sent[r1] # <<>>
    /\ sent[r2] = <<>>
    /\ \A e \in DOMAIN feed : feed[e].fate = "processed"

\* C3 (the claim as stated): every channel in the directory has exactly one
\* running Worker: one was spawned for it and it is still running.
C3_OneRunningWorkerPerTopic ==
  \A c \in channel_tasks : spawns[c] = 1 /\ Running(c)

\* C4 (the claim as stated, for an event that has left the Router and the
\* inboxes): a call that held an open stream of the event's channel when
\* the event was decoded, whose reader is still there and whose
\* registration was not replaced, was sent the event exactly once, unless
\* the fetch or the render failed.
C4_RegisteredBeforeEventIsDelivered ==
  \A e \in DOMAIN feed : \A r \in feed[e].streaming :
    /\ TimesSent(r, e) <= 1
    /\ ( /\ call[r] = "streaming"
         /\ ~\E q \in Requests :
               q # r /\ args[q] = args[r] /\ nSends[q] > 0
         /\ feed[e].fate \in {"processed", "lost", "send_failed"}
         /\ feed[e].kind = "Delete" \/ get_datetime(feed[e].message_id) # <<>> )
       => TimesSent(r, e) = 1

\* C5: an event decoded while the directory had no entry for its channel is
\* dropped there and then: the step that decodes it leaves the Router at
\* its select, the directory, the Workers and their inboxes as they were,
\* and the event is never in an inbox, a hand or a delivery channel.
C5_RouteMissDrops ==
  /\ [](\A e \in DOMAIN feed : ~feed[e].had_task =>
          /\ \A c \in ChannelUuids : e \notin SeqsIn(event_rx[c]) \cup SeqsIn(wHand[c])
          /\ routerPc = "send_event" => routerHand[1].seq # e
          /\ \A r \in Requests : TimesSent(r, e) = 0)
  /\ [][(Len(feed') > Len(feed) /\ ~feed'[Len(feed')].had_task) =>
          /\ routerPc' = "select"
          /\ channel_tasks' = channel_tasks
          /\ spawns' = spawns
          /\ wState' = wState
          /\ event_rx' = event_rx]_vars

\* C5 witness: an event was dropped for want of a directory entry, and a
\* call that registered on its channel afterwards holds an open stream.
C5_Witness ==
  \E e \in DOMAIN feed : \E r \in Requests :
    /\ ~feed[e].had_task
    /\ call[r] = "streaming"
    /\ args[r][1].channel_id = feed[e].channel_id
    /\ \E e2 \in DOMAIN feed : TimesSent(r, e2) = 1

\* C6: a Worker sends on the oneshot of a request at most once, and a
\* response that holds a delivery channel comes from exactly one send.
C6_AtMostOneResponse ==
  \A r \in Requests :
    /\ nSends[r] <= 1
    /\ oneshot[r] \in {"value", "taken"} => nSends[r] = 1
    /\ call[r] \in {"streaming", "closed"} => nSends[r] = 1

\* C6 witness: a call was handed its delivery channel.
C6_Witness == \E r \in Requests : call[r] = "streaming" /\ nSends[r] = 1

\* C7 (the claim as stated): under fair scheduling a call that waits for
\* its response does not wait for ever: it gets the stream or an error (or
\* its client gives up), also when the Worker of its channel or the Router
\* has ended.
C7_RegistrationReturns ==
  \A r \in 1..MaxRequests : (call[r] = "waiting") ~> (call[r] # "waiting")

\* C8: a call ends with SSEChannelRegistrationChannelFailed exactly when
\* its request did not enter the Router's inbox, which is then closed, and
\* with SSERegistationDidNotRecvChannel exactly when the request entered
\* the inbox and its oneshot sender was dropped without a send; in both
\* cases no delivery channel was made for it.
C8_TwoErrors ==
  \A r \in Requests :
    /\ call[r] = SSEChannelRegistrationChannelFailed
         <=> (call[r] # "none" /\ ~submitted[r])
    /\ call[r] = SSEChannelRegistrationChannelFailed => routerPc = "panicked"
    /\ call[r] = SSERegistationDidNotRecvChannel
         => submitted[r] /\ oneshot[r] = "tx_dropped" /\ nSends[r] = 0
    /\ (submitted[r] /\ oneshot[r] = "tx_dropped" /\ call[r] \notin {"waiting", "abandoned"})
         => call[r] = SSERegistationDidNotRecvChannel
    /\ call[r] \in {SSEChannelRegistrationChannelFailed, SSERegistationDidNotRecvChannel}
         => rx[r] = "none" /\ sent[r] = <<>>

\* C8 witness: one call ended with each of the two errors.
C8_Witness ==
  \E r1, r2 \in Requests :
    /\ call[r1] = SSEChannelRegistrationChannelFailed
    /\ call[r2] = SSERegistationDidNotRecvChannel

\* C9 (the claim as stated): a Worker that answers a registration whose
\* caller is gone drops the send and keeps running, the entry staying in
\* its user_senders.
C9_AbandonedRegistrationIsDiscarded ==
  \A r \in Requests :
    (nSends[r] > 0 /\ call[r] = "abandoned" /\ rx[r] = "dropped"
       /\ ~RouterEnded)
      => Running(args[r][1].channel_id)

\* C10 (the claim as stated): the Router does not end on an internal
\* anomaly: a registration for a channel whose Worker is gone is failed
\* back to its caller and the Router goes on.
C10_RouterSurvivesDeadWorker == routerPanic # "registration_send"

\* C11 (the claim as stated): no notification stops the Router:
\* handle_notification returns for every channel name and every payload,
\* also one of 72 bytes whose byte 36 lies inside a character.
C11_FeedCannotStopRouter == routerPanic # "payload_slice"

\* A registration on channel c whose caller went away before the response.
AbandonedOn(c) ==
  \E r \in Requests : call[r] = "abandoned" /\ args[r][1].channel_id = c

\* C12 (the claim as stated): an anomaly on one channel leaves the others
\* served: as long as no notification stopped the Router, a channel on which
\* no registration was abandoned keeps the Router that forwards to it and,
\* once spawned, its Worker.
C12_FaultContainment ==
  \A t2 \in ChannelUuids :
    (~AbandonedOn(t2) /\ routerPanic # "payload_slice")
      => /\ ~RouterEnded
         /\ spawns[t2] > 0 => Running(t2)

\* The text s is a hyphenated Uuid: 36 characters, hyphens at their four
\* places, hexadecimal digits elsewhere.
IsUuidText(s) ==
  /\ Len(s) = UUID_LEN
  /\ \A i \in 1..UUID_LEN :
       IF i \in HyphenPositions THEN s[i] = "-" ELSE s[i] \in HexDigits

\* The canonical (lower case) text of a hyphenated Uuid.
Canonical(s) ==
  [i \in 1..UUID_LEN |->
     IF i \in HyphenPositions THEN "-" ELSE LowerHex(HexValue(s[i]))]

RecognizedChannels == {"insert_message", "update_message", "delete_message"}

\* The payload p is two hyphenated Uuids, 72 characters in all.
IsTwoUuids(p) ==
  /\ Len(p) = 2 * UUID_LEN
  /\ IsUuidText(SubSeq(p, 1, UUID_LEN))
  /\ IsUuidText(SubSeq(p, UUID_LEN + 1, 2 * UUID_LEN))

\* The event d is made of the two Uuids of the payload p: the first is its
\* message id, the second its channel id.
MadeOf(d, p) ==
  /\ UuidText("message", d.message_id, FALSE) = Canonical(SubSeq(p, 1, UUID_LEN))
  /\ UuidText("channel", d.channel_id, FALSE)
       = Canonical(SubSeq(p, UUID_LEN + 1, 2 * UUID_LEN))

\* The notifications of two Uuid texts on a recognized channel.
WellFormed ==
  {n \in Notifications : n.channel \in RecognizedChannels /\ IsTwoUuids(n.payload)}

\* What decode_notification makes of every notification, against the
\* payload it was given.
DecoderTable ==
  \A n \in Notifications :
    LET d == decode_notification(n.channel, n.payload)
    IN /\ n \in WellFormed => d.tag = "event" /\ MadeOf(d, n.payload)
       /\ ByteLen(n.payload) # 2 * UUID_LEN
            => d.tag = "discard" /\ d.why = "length"
       /\ Len(n.payload) # 2 * UUID_LEN => d.tag # "event"

\* The pairs of ids that are the two halves of a well-formed notification.
WellFormedIds ==
  UNION {{ids \in [message_id : MessageUuids, channel_id : ChannelUuids] :
            MadeOf(ids, n.payload)} : n \in WellFormed}

\* C13: a payload of two 36-character Uuid texts on a recognized channel
\* decodes to an event whose message id is the first text and whose channel
\* id the second; for a payload of any other length in bytes decoding
\* fails at the length check, and one of another length in characters
\* yields no event; and every event of the feed is made of the two halves
\* of a well-formed payload.
C13_DecoderResult ==
  /\ DecoderTable
  /\ \A e \in DOMAIN feed :
       feed[e].fate # "discarded"
         => [message_id |-> feed[e].message_id,
             channel_id |-> feed[e].channel_id] \in WellFormedIds

\* C13 witness: the feed holds the event of message 2 on channel 10, which a
\* Worker processed, and the event of message 1 on channel 11, which was
\* sent on a stream.
C13_Witness ==
  \E e1, e2 \in DOMAIN feed : \E r \in Requests :
    /\ feed[e1].message_id = 2 /\ feed[e1].channel_id = 10
    /\ feed[e1].fate = "processed"
    /\ feed[e2].message_id = 1 /\ feed[e2].channel_id = 11
    /\ TimesSent(r, e2) = 1

\* A step in which handle_notification was given a notification that does
\* not decode: it was logged and dropped, or it ended the Router.
FailedDecodeStep ==
  \/ Len(feed') = Len(feed) + 1 /\ feed'[Len(feed')].fate = "discarded"
  \/ routerPanic = "" /\ routerPanic' = "payload_slice"

\* C14 (the claim as stated): a notification that does not decode (channel
\* not recognized, wrong payload length, an id that does not parse) has no
\* effect: nothing enters a Worker inbox, nothing is sent on a delivery
\* channel, the directory and the user_senders of every Worker stay as they
\* were.
C14_DecodeFailureHasNoEffect ==
  [][FailedDecodeStep =>
       /\ channel_tasks' = channel_tasks
       /\ user_senders' = user_senders
       /\ event_rx' = event_rx
       /\ user_rx' = user_rx
       /\ sent' = sent]_vars

\* The registration of r was not replaced: no other request with the same
\* channel and user was answered by a Worker.
NotReplaced(r) ==
  ~\E q \in Requests : q # r /\ args[q] = args[r] /\ nSends[q] > 0

\* C15: an Insert event that a Worker processed, fetch and render
\* succeeding, was sent exactly once on every stream of its channel that was
\* open when it was decoded and still is, and every copy of an Insert event
\* on a delivery channel has the ownership flag of its own user: true
\* exactly when the author of the message is that user.
C15_EachSubscriberItsOwnCopy ==
  /\ \A e \in DOMAIN feed : \A r \in feed[e].streaming :
       ( /\ feed[e].kind = "Insert"
         /\ feed[e].fate = "processed"
         /\ get_datetime(feed[e].message_id) # <<>>
         /\ call[r] = "streaming"
         /\ NotReplaced(r) )
         => TimesSent(r, e) = 1
  /\ \A r \in Requests : \A i \in DOMAIN sent[r] :
       feed[sent[r][i].seq].kind = "Insert"
         => /\ TimesSent(r, sent[r][i].seq) = 1
            /\ sent[r][i].data.id = element_id(feed[sent[r][i].seq].message_id)
            /\ sent[r][i].data.is_author
                 = (AuthorOf(feed[sent[r][i].seq].message_id)
                      = args[r][1].user_id)

\* C15 witness: one Insert event was sent on the open streams of two users
\* of one channel, with the ownership flag set in one copy and not in the
\* other.
C15_Witness ==
  \E e \in DOMAIN feed : \E r1, r2 \in Requests :
    /\ feed[e].kind = "Insert"
    /\ {r1, r2} \subseteq feed[e].streaming
    /\ call[r1] = "streaming" /\ call[r2] = "streaming"
    /\ \E i \in DOMAIN sent[r1] : sent[r1][i].seq = e /\ sent[r1][i].data.is_author
    /\ \E j \in DOMAIN sent[r2] : sent[r2][j].seq = e /\ ~sent[r2][j].data.is_author

\* The Worker of channel c came to the end of handle_message_event for the
\* event numbered e in this step: with the sends done, or (second
\* definition) with the sends done or the fetch failed.
PassEnds(c, e) ==
  /\ feed[e].channel_id = c
  /\ feed[e].fate # "processed"
  /\ feed'[e].fate = "processed"

EventEnds(c, e) ==
  /\ feed[e].channel_id = c
  /\ feed[e].fate \notin {"processed", "fetch_failed"}
  /\ feed'[e].fate \in {"processed", "fetch_failed"}

\* The users of channel c whose delivery channel has lost its receiver.
DeadUsers(c) ==
  {u \in DOMAIN user_senders[c] : rx[user_senders[c][u]] = "dropped"}

\* The users of channel c a send is attempted to for the event numbered e:
\* all of them for a Delete, and for an Insert or Update whose render
\* succeeds.
Attempted(c, e) ==
  IF feed[e].kind = "Delete" \/ get_datetime(feed[e].message_id) # <<>>
    THEN DOMAIN user_senders[c] ELSE {}

\* C16 (the claim as stated): once the Worker has handled an event of the
\* channel, no user whose delivery channel is closed is left in its
\* user_senders.
C16_PrunedAtNextEvent ==
  [][\A c \in ChannelUuids : \A e \in DOMAIN feed :
       EventEnds(c, e)
         => \A u \in DOMAIN user_senders'[c] :
              rx'[user_senders'[c][u]] # "dropped"]_vars

\* C16 (amended): a pass of sends removes from user_senders exactly the users
\* it attempted a send to whose delivery channel is closed; nothing is sent
\* on a closed channel; every other attempted user gets the event, as the
\* last one on its channel, and stays in user_senders.
C16_PrunedAtNextAttempt ==
  [][\A c \in ChannelUuids : \A e \in DOMAIN feed :
       PassEnds(c, e)
         => /\ DOMAIN user_senders'[c]
                 = DOMAIN user_senders[c] \ (Attempted(c, e) \cap DeadUsers(c))
            /\ \A r \in Requests : rx[r] = "dropped" => sent'[r] = sent[r]
            /\ \A u \in Attempted(c, e) \ DeadUsers(c) :
                 LET r == user_senders[c][u]
                 IN /\ user_senders'[c][u] = r
                    /\ Len(sent'[r]) = Len(sent[r]) + 1
                    /\ sent'[r][Len(sent'[r])].seq = e]_vars

\* C16 witness: of two users registered on one channel the one whose stream
\* was closed is gone from user_senders and was not sent the event, the other
\* is still there and was sent it.
C16_Witness ==
  \E e \in DOMAIN feed : \E r1, r2 \in Requests :
    LET c == feed[e].channel_id
    IN /\ feed[e].fate = "processed"
       /\ args[r1] # <<>> /\ args[r2] # <<>>
       /\ args[r1][1].channel_id = c /\ args[r2][1].channel_id = c
       /\ call[r1] = "closed" /\ nSends[r1] = 1
       /\ args[r1][1].user_id \notin DOMAIN user_senders[c]
       /\ TimesSent(r1, e) = 0
       /\ r2 \in OpenStreams(c)
       /\ TimesSent(r2, e) = 1

\* C17: a Delete event is never fetched for, so it never ends with a failed
\* fetch; every copy of it on a delivery channel is the same deletion, made
\* of the id of the deleted message alone; and the step that handles it
\* sends it on the open delivery channel of every user in user_senders.
C17_DeleteNeedsNoFetch ==
  /\ [](/\ \A e \in DOMAIN feed :
             feed[e].kind = "Delete" => feed[e].fate \notin {"fetching", "fetch_failed"}
        /\ \A c \in ChannelUuids : \A i \in DOMAIN wHand[c] : wHand[c][i].kind # "Delete"
        /\ \A r \in Requests : \A i \in DOMAIN sent[r] :
             feed[sent[r][i].seq].kind = "Delete"
               => sent[r][i].data = [el |-> "div",
                                     id |-> element_id(feed[sent[r][i].seq].message_id),
                                     swap_oob |-> "delete"])
  /\ [][\A c \in ChannelUuids : \A e \in DOMAIN feed :
          (PassEnds(c, e) /\ feed[e].kind = "Delete")
            => /\ feed[e].fate = "queued"
               /\ \A u \in DOMAIN user_senders[c] \ DeadUsers(c) :
                    LET r == user_senders[c][u]
                    IN /\ Len(sent'[r]) = Len(sent[r]) + 1
                       /\ sent'[r][Len(sent'[r])].seq = e]_vars

\* C17 witness: one Delete event was sent on the open streams of two users
\* of its channel, the two copies being equal.
C17_Witness ==
  \E e \in DOMAIN feed : \E r1, r2 \in Requests :
    /\ feed[e].kind = "Delete"
    /\ r1 # r2
    /\ {r1, r2} \subseteq OpenStreams(feed[e].channel_id)
    /\ \E i \in DOMAIN sent[r1] : \E j \in DOMAIN sent[r2] :
         sent[r1][i].seq = e /\ sent[r2][j] = sent[r1][i]

\* C18: the Worker never waits on a delivery channel: whatever the delivery
\* channels hold unread (nothing is ever read from them here), a Worker whose
\* fetch is under way can end it, and a Worker at its select can take the
\* event or the registration that is in its inbox.
C18_DeliveryNeverBlocks ==
  \A c \in ChannelUuids :
    /\ wState[c] = "fetch" => ENABLED WorkerFetch(c)
    /\ (wState[c] = "select" /\ event_rx[c] # <<>>) => ENABLED WorkerRecvEvent(c)
    /\ (wState[c] = "select" /\ user_rx[c] # <<>>) => ENABLED WorkerRecvReg(c)

\* C18 witness: a delivery channel holds two events unread, the second of
\* them was also sent on the channel of another user, and the Worker is
\* back at its select.
C18_Witness ==
  \E r1, r2 \in Requests :
    /\ r1 # r2
    /\ Len(sent[r1]) = 2
    /\ sent[r2] # <<>>
    /\ sent[r2][Len(sent[r2])].seq = sent[r1][2].seq
    /\ wState[args[r1][1].channel_id] = "select"

\* C19 (the claim as stated, for a Worker that is running): the stream of a
\* call whose reader is still there has not ended, whatever registrations
\* and events came after it.
C19_StreamEndsOnlyByDisconnect ==
  \A r \in Requests :
    (call[r] = "streaming" /\ Running(args[r][1].channel_id)) => ~StreamEnded(r)

\* The event tag the kind of a change asks for.
KindTag(kind) ==
  CASE kind = "Insert" -> "insert"
    [] kind = "Update" -> "update"
    [] kind = "Delete" -> "delete"

\* C20 (the claim as stated): every event on a delivery channel is tagged
\* with the kind of the change it was made for.
C20_EventTagNamesKind ==
  \A r \in Requests : \A i \in DOMAIN sent[r] :
    sent[r][i].event = KindTag(feed[sent[r][i].seq].kind)

\* C21 (the claim as stated): the directory only grows: a channel that has
\* an entry in channel_tasks keeps it in every later state.
C21_DirectoryOnlyGrows ==
  [][channel_tasks \subseteq channel_tasks']_vars

\* C22 (the claim as stated): once the Router has handled a change event
\* for a channel, a Worker was spawned for that channel.
C22_WorkerCreatedByFirstEvent ==
  \A e \in DOMAIN feed :
    feed[e].fate # "discarded" => spawns[feed[e].channel_id] > 0

\* The Router took the request at the head of its inbox, one for channel c,
\* in this step.
TakesRegistration(c) ==
  /\ routerPc = "select"
  /\ register_rx # <<>>
  /\ args[Head(register_rx)][1].channel_id = c
  /\ ~RouterEnded'
  /\ register_rx' = Tail(register_rx)

\* C22 (amended): a Worker is spawned by the Router taking a registration
\* for a channel that has no entry in the directory, and by nothing else: a
\* channel in the directory had a Worker spawned; the step that spawns one
\* takes a registration for that channel, finds no entry, adds the entry
\* and handles no notification; a registration taken for a channel without
\* an entry spawns one; and the step that handles a notification spawns
\* none.
C22_WorkerCreatedByFirstRegistration ==
  /\ [](\A c \in ChannelUuids : c \in channel_tasks => spawns[c] > 0)
  /\ [][\A c \in ChannelUuids :
          /\ spawns'[c] # spawns[c]
               => /\ TakesRegistration(c)
                  /\ c \notin channel_tasks
                  /\ c \in channel_tasks'
                  /\ spawns'[c] = spawns[c] + 1
                  /\ wState'[c] = "select"
                  /\ feed' = feed
          /\ (TakesRegistration(c) /\ c \notin channel_tasks)
               => spawns'[c] = spawns[c] + 1
          /\ Len(feed') > Len(feed) => spawns'[c] = spawns[c]]_vars

\* C22 witness: the change event of a channel was handled when no Worker
\* had been spawned for it and none was spawned then; a later registration
\* spawned the Worker, which has processed another event of the channel.
C22_Witness ==
  \E e1, e2 \in DOMAIN feed :
    /\ e1 < e2
    /\ feed[e1].fate = "route_miss"
    /\ feed[e2].channel_id = feed[e1].channel_id
    /\ feed[e2].fate = "processed"
    /\ spawns[feed[e1].channel_id] = 1

\* C23 (the claim as stated): two calls that name the same channel under
\* different servers are not served by one Worker, and every rendered
\* message on a delivery channel carries the server id of the call the
\* channel was made for.
C23_TopicIsChannelAndServer ==
  /\ \A r1, r2 \in Requests : \A c \in ChannelUuids :
       ( /\ {r1, r2} \subseteq Range(user_senders[c])
         /\ Running(c) )
         => args[r1][1].server_id = args[r2][1].server_id
  /\ \A r \in Requests : \A i \in DOMAIN sent[r] :
       feed[sent[r][i].seq].kind \in {"Insert", "Update"}
         => sent[r][i].data.server_id = args[r][1].server_id

\* C24: single writer: a step that changes the user_senders of channel c is
\* a step of the Worker of c; a step that changes what was sent on a
\* delivery channel is a step of the Worker of the channel it was made for;
\* a step that changes the directory is a Router step; and a Router step
\* changes no user_senders and no delivery channel.
C24_SingleWriter ==
  [][/\ \A c \in ChannelUuids :
          user_senders'[c] # user_senders[c] => WorkerStep(c)
     /\ \A r \in Requests :
          sent'[r] # sent[r] => WorkerStep(args[r][1].channel_id)
     /\ channel_tasks' # channel_tasks => RouterStep
     /\ RouterStep => user_senders' = user_senders /\ sent' = sent]_vars

\* C24 witness: the Workers of two channels each hold the sender of an open
\* stream and each has sent an event on it.
C24_Witness ==
  \E r1, r2 \in Requests :
    /\ r1 \in OpenStreams(10) /\ sent[r1] # <<>>
    /\ r2 \in OpenStreams(11) /\ sent[r2] # <<>>

\* The fetch for the event numbered e, of channel c, failed in this step.
FetchFails(c, e) ==
  /\ feed[e].channel_id = c
  /\ feed[e].fate # "fetch_failed"
  /\ feed'[e].fate = "fetch_failed"

\* C25: an event whose fetch failed is an Insert or an Update and is on no
\* delivery channel; the step in which the fetch fails sends nothing,
\* leaves every user_senders and both inboxes of the Worker as they were
\* and puts the Worker back at its select with nothing in hand.
C25_FetchFailureSkipsEvent ==
  /\ [](\A e \in DOMAIN feed :
          feed[e].fate = "fetch_failed"
            => /\ feed[e].kind \in {"Insert", "Update"}
               /\ \A r \in Requests : TimesSent(r, e) = 0)
  /\ [][\A c \in ChannelUuids : \A e \in DOMAIN feed :
          FetchFails(c, e)
            => /\ sent' = sent
               /\ user_senders' = user_senders
               /\ event_rx' = event_rx
               /\ user_rx' = user_rx
               /\ wState'[c] = "select"
               /\ wHand'[c] = <<>>]_vars

\* C25 witness: the fetch for an event failed while a stream of its channel
\* was open; the next event of the channel was sent on that stream.
C25_Witness ==
  \E e1, e2 \in DOMAIN feed : \E r \in Requests :
    /\ e1 < e2
    /\ feed[e1].fate = "fetch_failed"
    /\ feed[e2].channel_id = feed[e1].channel_id
    /\ r \in feed[e1].streaming
    /\ r \in OpenStreams(feed[e1].channel_id)
    /\ TimesSent(r, e1) = 0
    /\ TimesSent(r, e2) = 1

\* The render of the message of the event numbered e fails: its id is a
\* Uuid of a version that holds no timestamp.
RenderFails(e) == UuidVersion("message", feed[e].message_id) \notin {1, 6, 7}

\* C26: a user whose render of an Insert or Update fails is sent nothing
\* for that event and stays in user_senders, whether or not its delivery
\* channel still has a receiver; in the same pass every user whose render
\* succeeds and whose channel has its receiver is sent the event.
C26_RenderFailureSkipsSubscriber ==
  /\ [](\A r \in Requests : \A i \in DOMAIN sent[r] :
          feed[sent[r][i].seq].kind \in {"Insert", "Update"}
            => ~RenderFails(sent[r][i].seq))
  /\ [][\A c \in ChannelUuids : \A e \in DOMAIN feed :
          (PassEnds(c, e) /\ feed[e].kind \in {"Insert", "Update"})
            => \A u \in DOMAIN user_senders[c] :
                 LET r == user_senders[c][u]
                 IN IF RenderFails(e)
                      THEN /\ u \in DOMAIN user_senders'[c]
                           /\ user_senders'[c][u] = r
                           /\ sent'[r] = sent[r]
                    ELSE rx[r] # "dropped"
                           => /\ Len(sent'[r]) = Len(sent[r]) + 1
                              /\ sent'[r][Len(sent'[r])].seq = e]_vars

\* C26 witness: the Worker processed an event whose render fails while a
\* stream of the channel was open: nothing was sent on it for that event,
\* it is still in user_senders, and another event was sent on it.
C26_Witness ==
  \E e1, e2 \in DOMAIN feed : \E r \in Requests :
    /\ feed[e1].kind = "Insert"
    /\ feed[e1].fate = "processed"
    /\ RenderFails(e1)
    /\ r \in feed[e1].streaming
    /\ r \in OpenStreams(feed[e1].channel_id)
    /\ TimesSent(r, e1) = 0
    /\ TimesSent(r, e2) = 1

\* The markup d without its ownership flag.
WithoutOwnership(d) == [d EXCEPT !.is_author = FALSE]

\* The markup d without its ownership flag and without the text of the
\* relative time.
WithoutOwnershipAndTime(d) == [WithoutOwnership(d) EXCEPT !.relative = <<>>]

\* C27 as stated: two copies of one Insert or Update on delivery channels
\* differ at most in the ownership flag.
C27_CopiesDifferOnlyInOwnership ==
  \A r1, r2 \in Requests : \A i \in DOMAIN sent[r1] : \A j \in DOMAIN sent[r2] :
    ( /\ sent[r1][i].seq = sent[r2][j].seq
      /\ feed[sent[r1][i].seq].kind \in {"Insert", "Update"} )
      => WithoutOwnership(sent[r1][i].data) = WithoutOwnership(sent[r2][j].data)

\* C27: the fetch for an event starts once, for an Insert or Update taken
\* from the inbox, and ends once; the sends for an Insert or Update end
\* the fetch of that event, whatever user_senders holds; and two copies of
\* one Insert or Update on delivery channels are the markup of the message
\* of the event, made of one row (the same content, author name and
\* "Edited" mark), and differ at most in the ownership flag and in the text
\* of the relative time, which every render takes from its own clock read.
C27_OneFetchPerEvent ==
  /\ [](\A r1, r2 \in Requests : \A i \in DOMAIN sent[r1] : \A j \in DOMAIN sent[r2] :
          ( /\ sent[r1][i].seq = sent[r2][j].seq
            /\ feed[sent[r1][i].seq].kind \in {"Insert", "Update"} )
            => /\ sent[r1][i].data.id = element_id(feed[sent[r1][i].seq].message_id)
               /\ WithoutOwnershipAndTime(sent[r1][i].data)
                    = WithoutOwnershipAndTime(sent[r2][j].data))
  /\ [][\A e \in DOMAIN feed :
          /\ (feed[e].fate # "fetching" /\ feed'[e].fate = "fetching")
               => feed[e].fate = "queued" /\ feed[e].kind \in {"Insert", "Update"}
          /\ feed[e].fate = "fetching"
               => feed'[e].fate \in {"fetching", "processed", "fetch_failed"}
          /\ feed[e].fate \in {"processed", "fetch_failed"}
               => feed'[e].fate = feed[e].fate
          /\ ( /\ feed[e].fate # "processed"
               /\ feed'[e].fate = "processed"
               /\ feed[e].kind \in {"Insert", "Update"} )
               => feed[e].fate = "fetching"]_vars

\* C27 witness: one Update event was sent on the open streams of two users,
\* the two copies differing in the ownership flag and in the text of the
\* relative time, and alike in all the rest.
C27_Witness ==
  \E e \in DOMAIN feed : \E r1, r2 \in Requests :
    /\ feed[e].kind = "Update"
    /\ feed[e].fate = "processed"
    /\ \E i \in DOMAIN sent[r1] : \E j \in DOMAIN sent[r2] :
         /\ sent[r1][i].seq = e
         /\ sent[r2][j].seq = e
         /\ sent[r1][i].data.is_author # sent[r2][j].data.is_author
         /\ sent[r1][i].data.relative # sent[r2][j].data.relative
         /\ sent[r1][i].data.edited /\ sent[r2][j].data.edited
         /\ sent[r1][i].data.content = sent[r2][j].data.content

\* The events of channel c that its Worker has in hand.
InHand(c) == {e \in DOMAIN feed : feed[e].channel_id = c /\ feed[e].fate = "fetching"}

\* C28: the event inbox and the registration inbox of a Worker hold at most
\* EventInboxCap and UserInboxCap entries and register_rx at most
\* RegisterCap; an event that finds the inbox of its Worker full stays in
\* the hand of the suspended Router, the inbox untouched, until the send
\* completes; an event sent is in the inbox until the Worker takes it; and
\* a Worker has at most one event in hand and takes the next one only with
\* its hand empty; and while register_rx is full no call completes its
\* send.
C28_BoundedBuffering ==
  /\ [](/\ Len(register_rx) <= RegisterCap
        /\ \A c \in ChannelUuids :
             /\ Len(event_rx[c]) <= EventInboxCap
             /\ Len(user_rx[c]) <= UserInboxCap
             /\ Len(wHand[c]) <= 1
             /\ Cardinality(InHand(c)) <= 1
             /\ InHand(c) = SeqsIn(wHand[c])
        /\ \A e \in DOMAIN feed :
             /\ feed[e].fate = "routing"
                  => /\ routerPc = "send_event"
                     /\ SeqsIn(routerHand) = {e}
                     /\ routerHand[1].to = feed[e].channel_id
                     /\ e \notin SeqsIn(event_rx[feed[e].channel_id])
             /\ feed[e].fate = "queued" => e \in SeqsIn(event_rx[feed[e].channel_id]))
  /\ [][/\ \A c \in ChannelUuids :
             /\ ( /\ routerPc = "select"
                  /\ Len(feed') > Len(feed)
                  /\ feed'[Len(feed')].channel_id = c
                  /\ c \in channel_tasks
                  /\ Running(c)
                  /\ Len(event_rx[c]) = EventInboxCap )
                  => /\ routerPc' = "send_event"
                     /\ feed'[Len(feed')].fate = "routing"
                     /\ event_rx'[c] = event_rx[c]
             /\ SeqsIn(wHand'[c]) \ SeqsIn(wHand[c]) # {}
                  => /\ wHand[c] = <<>>
                     /\ wHand'[c] = <<Head(event_rx[c])>>
                     /\ event_rx'[c] = Tail(event_rx[c])
         /\ \A e \in DOMAIN feed :
             feed[e].fate = "routing"
               => \/ feed'[e].fate = "routing" /\ routerHand' = routerHand
                  \/ /\ feed'[e].fate = "queued"
                     /\ Len(event_rx[feed[e].channel_id]) < EventInboxCap
                     /\ event_rx'[feed[e].channel_id]
                          = Append(event_rx[feed[e].channel_id],
                                   [routerHand[1] EXCEPT !.to = 0])
                  \/ feed'[e].fate = "send_failed" /\ ~Running(feed[e].channel_id)]_vars
  /\ [][Len(register_rx) = RegisterCap
          => \A r \in Requests : (call[r] = "none" => call'[r] = "none")]_vars

\* C28 witness: the Router is suspended on the send of the second event of
\* a channel whose event inbox and registration inbox are full, while
\* register_rx is full too and a further call has yet to send its request.
C28_Witness ==
  /\ routerPc = "send_event"
  /\ Len(register_rx) = RegisterCap
  /\ \E r \in Requests : call[r] = "none"
  /\ \E c \in ChannelUuids :
       /\ routerHand[1].to = c
       /\ Running(c)
       /\ Len(event_rx[c]) = EventInboxCap
       /\ Len(user_rx[c]) = UserInboxCap
       /\ feed[routerHand[1].seq].fate = "routing"

\* The Worker of the channel of call r took the registration of r from its
\* inbox in this step.
RegistrationProcessed(r) == nSends'[r] > nSends[r]

\* C29: a registration the Worker processes puts its user in user_senders
\* with the new delivery channel, where the user stays until a pass of sends
\* finds its channel closed or the task ends; the pass of sends for an event
\* sends it once on the channel of every user of user_senders that has its
\* receiver (the render succeeding); and an event is sent on a delivery
\* channel only in the one pass of that event, to a channel whose
\* registration was processed before, so that a channel registered after
\* the pass never carries the event.
C29_RegistrationLinearized ==
  [][/\ \A r \in Requests :
         RegistrationProcessed(r)
           => LET a == args[r][1]
              IN /\ Running(a.channel_id)' =>
                      /\ a.user_id \in DOMAIN user_senders'[a.channel_id]
                      /\ user_senders'[a.channel_id][a.user_id] = r
                 /\ \A e \in DOMAIN feed :
                      feed[e].fate = "processed" => TimesSent(r, e)' = 0
     /\ \A c \in ChannelUuids : \A u \in DOMAIN user_senders[c] :
         (Running(c)' /\ u \notin DOMAIN user_senders'[c])
           => /\ rx[user_senders[c][u]] = "dropped"
              /\ \E e \in DOMAIN feed : PassEnds(c, e) /\ u \in Attempted(c, e)
     /\ \A c \in ChannelUuids : \A e \in DOMAIN feed :
         PassEnds(c, e)
           => \A u \in Attempted(c, e) :
                rx[user_senders[c][u]] = "open"
                  => TimesSentAfter(user_senders[c][u], e) = 1
     /\ \A e \in DOMAIN feed :
         /\ feed[e].fate = "processed" => feed'[e].fate = "processed"
         /\ \A r \in Requests :
              TimesSent(r, e)' # TimesSent(r, e)
                => /\ PassEnds(feed[e].channel_id, e)
                   /\ nSends[r] > 0
                   /\ args[r][1].channel_id = feed[e].channel_id
                   /\ args[r][1].user_id \in DOMAIN user_senders[feed[e].channel_id]
                   /\ user_senders[feed[e].channel_id][args[r][1].user_id] = r]_vars

\* C29 witness: of two open streams of one channel, the first carries an
\* event the Worker processed and the second, registered after the pass,
\* does not.
C29_Witness ==
  \E e \in DOMAIN feed : \E r1, r2 \in Requests :
    /\ feed[e].fate = "processed"
    /\ r1 \in OpenStreams(feed[e].channel_id)
    /\ r2 \in OpenStreams(feed[e].channel_id)
    /\ TimesSent(r1, e) = 1
    /\ TimesSent(r2, e) = 0

\* C30: the reader of a delivery channel going away leaves user_senders as
\* it is, and a user whose delivery channel is closed leaves user_senders
\* only in a step where the Worker ends the pass of sends for an event of
\* the channel.
C30_RemovedOnlyByLaterEvent ==
  [][\A c \in ChannelUuids : \A u \in DOMAIN user_senders[c] :
       LET r == user_senders[c][u]
       IN /\ (rx[r] = "open" /\ rx'[r] = "dropped") => user_senders' = user_senders
          /\ (rx[r] = "dropped" /\ u \notin DOMAIN user_senders'[c])
               => \E e \in DOMAIN feed : PassEnds(c, e)]_vars

\* The users of channel c whose send fails in the pass for the event
\* numbered e: a send to them is attempted and their channel is closed.
FailedSends(c, e) == Attempted(c, e) \cap DeadUsers(c)

\* C31: the step that ends the pass of sends for an event sends it once on
\* the channel of every user the pass has a rendered event for whose channel
\* has its receiver, whichever users before it in the iteration failed, and
\* leaves as user_senders of the channel the map it was before restricted
\* to the users whose send did not fail; the sets of other channels are
\* untouched.
C31_PruningAfterFullPass ==
  [][\A c \in ChannelUuids : \A e \in DOMAIN feed :
       PassEnds(c, e)
         => /\ user_senders'[c]
                 = [u \in DOMAIN user_senders[c] \ FailedSends(c, e)
                      |-> user_senders[c][u]]
            /\ \A d \in ChannelUuids \ {c} : user_senders'[d] = user_senders[d]
            /\ \A u \in Attempted(c, e) :
                 LET r == user_senders[c][u]
                 IN IF u \in FailedSends(c, e)
                      THEN TimesSentAfter(r, e) = 0
                    ELSE TimesSentAfter(r, e) = 1]_vars

\* C31 witness: in the pass for an event the send to user 21, first in the
\* iteration, failed and the user is gone from user_senders; user 22, after
\* it in the iteration, was sent the event and is still there.
C31_Witness ==
  \E e \in DOMAIN feed : \E r1, r2 \in Requests :
    LET c == feed[e].channel_id
    IN /\ feed[e].fate = "processed"
       /\ r2 \in OpenStreams(c)
       /\ TimesSent(r2, e) = 1
       /\ args[r1] # <<>>
       /\ args[r1][1].channel_id = c
       /\ args[r1][1].user_id < args[r2][1].user_id
       /\ nSends[r1] = 1
       /\ rx[r1] = "dropped"
       /\ TimesSent(r1, e) = 0
       /\ DOMAIN user_senders[c] = {args[r2][1].user_id}

\* C32: a call that was returned its stream has its user in user_senders of
\* its channel, with the sender of that stream, as long as no later
\* registration of the same user on the channel replaced it (a user whose
\* stream is read is never pruned).
C32_ReturnedStreamIsInSet ==
  \A r \in Requests :
    (call[r] = "streaming" /\ NotReplaced(r))
      => /\ args[r][1].user_id \in DOMAIN user_senders[args[r][1].channel_id]
         /\ user_senders[args[r][1].channel_id][args[r][1].user_id] = r

\* The calls for channel c that the Router took from register_rx, and the
\* first of them, which spawned the Worker of c: the calls are numbered in
\* the order they entered register_rx.
Forwarded(c) ==
  {r \in Requests : /\ submitted[r]
                    /\ args[r][1].channel_id = c
                    /\ r \notin Range(register_rx)
                    /\ stranded[r] # "register_rx"
                    /\ (routerPc \in {"send_reg", "push_reg"}
                          => routerHand[1].reg # r)}

FirstRegistration(c) == CHOOSE r \in Forwarded(c) : \A q \in Forwarded(c) : r <= q

\* C33: an event reaches the inbox of a Worker only after the Router
\* forwarded the registration that spawned the Worker; a Worker at its
\* select with an event and a registration both waiting can take either;
\* and a registration processed after the pass of sends for an event leaves
\* the new delivery channel without that event, for good.
C33_RegistrationMayFollowEvent ==
  /\ [](\A e \in DOMAIN feed :
          feed[e].fate \notin {"discarded", "route_miss"}
            => /\ feed[e].had_task
               /\ Forwarded(feed[e].channel_id) # {})
  /\ [](\A c \in ChannelUuids :
          (wState[c] = "select" /\ event_rx[c] # <<>> /\ user_rx[c] # <<>>)
            => (ENABLED WorkerRecvEvent(c)) /\ (ENABLED WorkerRecvReg(c)))
  /\ [][\A e \in DOMAIN feed : \A r \in Requests :
          feed[e].fate = "processed"
            => /\ RegistrationProcessed(r) => TimesSentAfter(r, e) = 0
               /\ TimesSentAfter(r, e) = TimesSent(r, e)]_vars

\* C33 witness: the registration that spawned the Worker of a channel, so
\* forwarded before any event of the channel was routed, has its stream
\* open, and an event of the channel that was sent to the users of the
\* Worker is not on it: the Worker took the event first.
C33_Witness ==
  \E e \in DOMAIN feed :
    LET c == feed[e].channel_id
    IN /\ feed[e].fate = "processed"
       /\ feed[e].kind = "Delete" \/ ~RenderFails(e)
       /\ FirstRegistration(c) \in OpenStreams(c)
       /\ TimesSent(FirstRegistration(c), e) = 0

\* The Router is suspended in a send to the inbox of a Worker.
RouterSuspended == routerPc \in {"send_event", "send_reg"}

\* C34: under fair scheduling the Router does not stay suspended in a send
\* to a Worker; and the step that ends the suspension puts the event or the
\* registration the Router holds at the end of the inbox it was sent to,
\* unless the Worker has ended or is unwinding meanwhile (the send then
\* fails, or goes on to push with the permit it took).
C34_ForwardCompletes ==
  /\ RouterSuspended ~> ~RouterSuspended
  /\ [][(RouterSuspended /\ ~RouterSuspended')
          => LET h == routerHand[1]
             IN \/ ~Running(h.to)
                \/ /\ routerPc = "send_event"
                   /\ event_rx'[h.to] = Append(event_rx[h.to], [h EXCEPT !.to = 0])
                \/ /\ routerPc = "send_reg"
                   /\ user_rx'[h.to] = Append(user_rx[h.to], h.reg)]_vars

\* C34 witness: the Router holds a registration for the full registration
\* inbox of a Worker that is busy with the fetch for an event.
C34_Witness ==
  /\ routerPc = "send_reg"
  /\ \E c \in ChannelUuids :
       /\ routerHand[1].to = c
       /\ wState[c] = "fetch"
       /\ Len(user_rx[c]) = UserInboxCap

\* q is p with nothing taken out: p is a prefix of q.
IsPrefix(p, q) == Len(p) <= Len(q) /\ \A i \in DOMAIN p : q[i] = p[i]

\* C35: while the Router is suspended in a send to the inbox of a Worker
\* it takes no notification and no registration: the feed does not advance,
\* the requests in register_rx stay there (new ones queue behind them), the
\* directory is unchanged, no Worker is spawned and no inbox of any Worker
\* gets a message; the step that ends the suspension puts a message in no
\* inbox but the one the Router was sending to.
C35_HeadOfLineBlocking ==
  [][RouterSuspended
       => /\ Len(feed') = Len(feed)
          /\ spawns' = spawns
          /\ \A c \in ChannelUuids :
               c # routerHand[1].to
                 => /\ IsPrefix(event_rx'[c], event_rx[c]) \/ event_rx'[c] = Tail(event_rx[c])
                    /\ IsPrefix(user_rx'[c], user_rx[c]) \/ user_rx'[c] = Tail(user_rx[c])
          /\ RouterSuspended'
               => /\ IsPrefix(register_rx, register_rx')
                  /\ channel_tasks' = channel_tasks
                  /\ routerHand' = routerHand
                  /\ \A c \in ChannelUuids :
                       /\ Len(event_rx'[c]) <= Len(event_rx[c])
                       /\ Len(user_rx'[c]) <= Len(user_rx[c])]_vars

\* C35 witness: the Router is suspended in the send of an event to the full
\* inbox of a Worker that is inside the fetch for an earlier event, while
\* the registration for another channel, which has no Worker yet, waits in
\* register_rx.
C35_Witness ==
  /\ routerPc = "send_event"
  /\ wState[routerHand[1].to] = "fetch"
  /\ Len(event_rx[routerHand[1].to]) = EventInboxCap
  /\ \E i \in DOMAIN register_rx :
       /\ args[register_rx[i]][1].channel_id # routerHand[1].to
       /\ wState[args[register_rx[i]][1].channel_id] = "absent"

\* Every Worker task has ended and no call has an open stream.
AllWorkersEnded ==
  /\ \A c \in ChannelUuids : wState[c] \in {"absent", "panicked"}
  /\ \A c \in ChannelUuids : OpenStreams(c) = {} /\ user_senders[c] = NoUsers

\* C36 (the claim as stated): once the loop of the Router task has ended,
\* every call made from then on gets SSEChannelRegistrationChannelFailed
\* and, under fair scheduling, every Worker task ends and no stream is left
\* open.
C36_RouterTerminationCascades ==
  /\ [][RouterEnded
          => \A r \in Requests :
               (call[r] = "none" /\ call'[r] # "none")
                 => call'[r] = SSEChannelRegistrationChannelFailed]_vars
  /\ RouterEnded ~> AllWorkersEnded

\* C37: a user leaves user_senders only in the step that ends a pass of
\* sends in which the send to it failed; the step in which a fetch fails
\* leaves every user_senders as it is; and the pass for an Insert or Update
\* whose render fails removes nobody, closed channels included.
C37_RemovedOnlyByFailedSend ==
  [][\A c \in ChannelUuids :
       /\ \A u \in DOMAIN user_senders[c] :
            u \notin DOMAIN user_senders'[c]
              => \E e \in DOMAIN feed : PassEnds(c, e) /\ u \in FailedSends(c, e)
       /\ \A e \in DOMAIN feed :
            /\ FetchFails(c, e) => user_senders' = user_senders
            /\ ( /\ PassEnds(c, e)
                 /\ feed[e].kind \in {"Insert", "Update"}
                 /\ RenderFails(e) ) => user_senders' = user_senders]_vars

\* Calls q and r are for the same user of the same channel.
SameSubscriber(q, r) ==
  /\ args[q] # <<>>
  /\ args[r] # <<>>
  /\ args[q][1].channel_id = args[r][1].channel_id
  /\ args[q][1].user_id = args[r][1].user_id

\* C38: of the calls of one user on one channel user_senders holds the
\* sender of at most one, under the id of the user: once the Worker has
\* processed the registration of a later call, the sender of an earlier
\* one is gone from user_senders, its stream has ended and nothing more is
\* sent on it, while the step that processes the later registration puts
\* its sender under the id and the events sent to the user from then on are
\* on the new channel.
C38_OneEntryPerSubscriber ==
  /\ [](\A q, r \in Requests :
          (q < r /\ SameSubscriber(q, r) /\ nSends[r] > 0)
            => /\ q \notin Range(user_senders[args[q][1].channel_id])
               /\ call[q] = "streaming" => StreamEnded(q))
  /\ [][\A q, r \in Requests :
          (q < r /\ SameSubscriber(q, r))
            => /\ nSends[r] > 0 => sent'[q] = sent[q]
               /\ ( /\ RegistrationProcessed(r)
                    /\ Running(args[r][1].channel_id)' )
                    => user_senders'[args[r][1].channel_id]
                         = [u \in DOMAIN user_senders[args[r][1].channel_id]
                                    \cup {args[r][1].user_id}
                              |-> IF u = args[r][1].user_id THEN r
                                  ELSE user_senders[args[r][1].channel_id][u]]]_vars

\* C38 witness: the same user registered twice on a channel; the first
\* stream, which carries the first event, has ended with its reader still
\* there, and the second event is on the second stream only.
C38_Witness ==
  \E q, r \in Requests : \E e1, e2 \in DOMAIN feed :
    /\ q < r
    /\ e1 < e2
    /\ SameSubscriber(q, r)
    /\ call[q] = "streaming"
    /\ StreamEnded(q)
    /\ r \in OpenStreams(args[r][1].channel_id)
    /\ TimesSent(q, e1) = 1
    /\ TimesSent(q, e2) = 0
    /\ TimesSent(r, e1) = 0
    /\ TimesSent(r, e2) = 1

\* The attributes of the li element that render_message makes.
MessageTemplate ==
  {"el", "id", "swap_oob", "edited", "author_name", "datetime", "relative",
   "content", "is_author", "channel_id", "server_id"}

\* C39: on every delivery channel the data of an Insert event is the li
\* element of the message without hx-swap-oob, the data of an Update event
\* is the same element with hx-swap-oob set, and the data of a Delete event
\* is an empty div with the element id of the deleted message and
\* hx-swap-oob="delete".
C39_PayloadByKind ==
  \A r \in Requests : \A i \in DOMAIN sent[r] :
    LET d == sent[r][i].data
        e == sent[r][i].seq
    IN /\ d.id = element_id(feed[e].message_id)
       /\ feed[e].kind \in {"Insert", "Update"}
            => /\ DOMAIN d = MessageTemplate
               /\ d.el = "li"
               /\ d.swap_oob = (feed[e].kind = "Update")
       /\ feed[e].kind = "Delete"
            => /\ DOMAIN d = {"el", "id", "swap_oob"}
               /\ d.el = "div"
               /\ d.swap_oob = "delete"

\* C39 witness: one stream carries an Update, with hx-swap-oob set, and the
\* Delete of the same message.
C39_Witness ==
  \E r \in Requests : \E i, j \in DOMAIN sent[r] :
    /\ feed[sent[r][i].seq].kind = "Update"
    /\ sent[r][i].data.swap_oob = TRUE
    /\ feed[sent[r][j].seq].kind = "Delete"
    /\ sent[r][j].data.swap_oob = "delete"
    /\ sent[r][j].data.id = sent[r][i].data.id

=============================================================================
